---- MODULE Spec2Model ----
(***************************************************************************)
(* Model of the LogicMind question pipeline (src/app.py) and of the two    *)
(* clients it drives (src/utils/ai_helper.py, src/utils/neo4j_helper.py).  *)
(*                                                                         *)
(* Conventions.  A Python string is a sequence of tokens (TLA+ strings):   *)
(* "" is <<>>, concatenation and f-string interpolation are \o, and `in`   *)
(* on strings is contiguous-subsequence search.  A Python dict is a        *)
(* function from key names to values.  A call either returns a value or    *)
(* raises: Ret(v) / Raise(e).  Emoji of the source literals are written    *)
(* as ASCII tags ("[x] ", "[i] ", ...).                                    *)
(***************************************************************************)
EXTENDS Integers, Sequences, FiniteSets, TLC

\* ---------------------------------------------------------------- bounds
MaxQuestions == 2
MaxRows == 1
MaxHelperCalls == 3
MaxLoads == 2
MaxFailAt == 4
MaxWords == 3

\* ------------------------------------------------------- Python plumbing
None == "None"

Ret(v) == [raised |-> FALSE, value |-> v]
Raise(e) == [raised |-> TRUE, exc |-> e]
Exc(type, msg) == [type |-> type, msg |-> msg]

Get(m, k, d) == IF k \in DOMAIN m THEN m[k] ELSE d
SetItem(m, k, v) == [x \in DOMAIN m \cup {k} |-> IF x = k THEN v ELSE m[x]]

StartsWith(s, p) == Len(s) >= Len(p) /\ SubSeq(s, 1, Len(p)) = p
EndsWith(s, p) == Len(s) >= Len(p) /\ SubSeq(s, Len(s) - Len(p) + 1, Len(s)) = p
Drop(s, n) == SubSeq(s, n + 1, Len(s))
Contains(s, p) == \E i \in 0..(Len(s) - Len(p)) : SubSeq(s, i + 1, i + Len(p)) = p

Digits == <<"0", "1", "2", "3", "4", "5", "6", "7", "8", "9">>
IntStr(n) == IF n < 10 THEN <<Digits[n + 1]>> ELSE <<Digits[(n \div 10) + 1], Digits[(n % 10) + 1]>>

WS == "\n"
\* the three-backtick code fence
FENCE == "<fence>"
JSONTAG == "json"

RECURSIVE LStrip(_)
LStrip(s) == IF s # <<>> /\ Head(s) = WS THEN LStrip(Tail(s)) ELSE s
RECURSIVE RStrip(_)
RStrip(s) == IF s # <<>> /\ s[Len(s)] = WS THEN RStrip(SubSeq(s, 1, Len(s) - 1)) ELSE s
Strip(s) == LStrip(RStrip(s))

\* ------------------------------------------------------------ JSON texts
\* Each JSON text the model backend may emit is one token; json.loads maps
\* it to the value it denotes.
Q_COUNT == <<"MATCH (e:Employee) RETURN count(e)">>
Q_LIST == <<"MATCH (e:Employee) RETURN e">>
OUT_OF_SCOPE_MSG == <<"I can only answer questions about the employee database.">>
MODEL_ANSWER == <<"**3** employees work here.">>

GenJsonTexts == {"J_count", "J_list", "J_aggregate", "J_notype", "J_smalltalk", "J_error", "J_nokey", "J_array"}
NarrJsonTexts == {"J_answer", "J_noanswer", "J_array"}
JsonTexts == GenJsonTexts \cup NarrJsonTexts

JsonValue(tok) ==
    CASE tok = "J_count" -> [t |-> "obj", v |-> [response_type |-> <<"cypher">>, cypher_query |-> Q_COUNT, query_type |-> <<"count">>]]
      [] tok = "J_list" -> [t |-> "obj", v |-> [response_type |-> <<"cypher">>, cypher_query |-> Q_LIST, query_type |-> <<"list">>]]
      [] tok = "J_aggregate" -> [t |-> "obj", v |-> [response_type |-> <<"cypher">>, cypher_query |-> Q_COUNT, query_type |-> <<"aggregate">>]]
      [] tok = "J_notype" -> [t |-> "obj", v |-> [cypher_query |-> Q_LIST]]
      [] tok = "J_smalltalk" -> [t |-> "obj", v |-> [response_type |-> <<"smalltalk">>, message |-> <<"Hello!">>]]
      [] tok = "J_error" -> [t |-> "obj", v |-> [response_type |-> <<"error">>, message |-> OUT_OF_SCOPE_MSG]]
      [] tok = "J_nokey" -> [t |-> "obj", v |-> [response_type |-> <<"cypher">>, query_type |-> <<"list">>]]
      [] tok = "J_answer" -> [t |-> "obj", v |-> [answer |-> MODEL_ANSWER, data_table |-> None]]
      [] tok = "J_noanswer" -> [t |-> "obj", v |-> [text |-> MODEL_ANSWER]]
      [] OTHER -> [t |-> "arr", v |-> <<>>]

JsonLoads(s) ==
    IF Len(s) = 1 /\ s[1] \in JsonTexts
    THEN Ret(JsonValue(s[1]))
    ELSE Raise(Exc("JSONDecodeError", <<"Expecting value">>))

\* result["success"] = True on the value json.loads returned
MarkSuccess(parsed) ==
    IF parsed.t = "obj"
    THEN Ret(SetItem(parsed.v, "success", TRUE))
    ELSE Raise(Exc("TypeError", <<"list indices must be integers or slices, not str">>))

\* ------------------------------------------------------------- AIHelper
OpenAI == "OpenAI"
Gemini == "Google Gemini"

\* AIHelper.__init__: only the two known providers yield a client.
AIHelper_init(api_key, provider) ==
    IF provider \in {OpenAI, Gemini}
    THEN Ret([api_key |-> api_key, provider |-> provider])
    ELSE Raise(Exc("Exception", <<"Failed to initialize AI client: ", "Unsupported provider: ", provider>>))

\* What one completion request to the backend can do: raise, answer with no
\* text (content None), or answer with a text.
BackendRaise(msg) == [kind |-> "raise", msg |-> msg, text |-> <<>>]
BackendNone == [kind |-> "none", msg |-> <<>>, text |-> <<>>]
BackendText(t) == [kind |-> "text", msg |-> <<>>, text |-> t]

\* result_text of the provider branch
ResultText(provider, b) ==
    IF provider \notin {OpenAI, Gemini}
    THEN Raise(Exc("UnboundLocalError", <<"local variable 'result_text' referenced before assignment">>))
    ELSE IF b.kind = "raise" THEN Raise(Exc("APIError", b.msg))
    ELSE IF b.kind = "none" THEN Raise(Exc("AttributeError", <<"'NoneType' object has no attribute 'strip'">>))
    ELSE Ret(b.text)

AIHelper_test_connection_Propagate(provider, b) ==
    IF provider \notin {OpenAI, Gemini} THEN Ret(FALSE)
    ELSE IF b.kind = "raise" THEN Raise(Exc("APIError", b.msg))
    ELSE Ret(b.kind # "none")

\* AIHelper.test_connection: one "Hello" completion; the text of the
\* response `is not None`, and any exception is reported and gives False
AIHelper_test_connection(provider, b) ==
    IF provider \notin {OpenAI, Gemini} THEN Ret(FALSE)
    ELSE IF b.kind = "raise" THEN Ret(FALSE)
    ELSE Ret(b.kind # "none")

CleanResponse_KeepTrailing(result_text) ==
    LET a == Strip(result_text)
        b == IF StartsWith(a, <<FENCE, JSONTAG>>) THEN Drop(a, 2)
             ELSE IF StartsWith(a, <<FENCE>>) THEN Drop(a, 1)
             ELSE a
    IN  Strip(b)

\* "Clean the response": strip, drop one leading fence, one trailing fence, strip
CleanResponse(result_text) ==
    LET a == Strip(result_text)
        b == IF StartsWith(a, <<FENCE, JSONTAG>>) THEN Drop(a, 2)
             ELSE IF StartsWith(a, <<FENCE>>) THEN Drop(a, 1)
             ELSE a
        c == IF EndsWith(b, <<FENCE>>) THEN SubSeq(b, 1, Len(b) - 1) ELSE b
    IN  Strip(c)

\* clean, json.loads, result["success"] = True
ParseCompletion(provider, b) ==
    LET rt == ResultText(provider, b) IN
    IF rt.raised THEN rt
    ELSE LET parsed == JsonLoads(CleanResponse(rt.value)) IN
         IF parsed.raised THEN parsed ELSE MarkSuccess(parsed.value)

CypherFailure(error) ==
    [success |-> FALSE, error |-> error, cypher_query |-> <<>>,
     query_type |-> <<"error">>, entities |-> <<>>, relationships |-> <<>>]

generate_cypher_query_NoCatchAll(provider, b) ==
    LET body == ParseCompletion(provider, b) IN
    IF ~body.raised THEN body
    ELSE IF body.exc.type = "JSONDecodeError"
    THEN Ret(CypherFailure(<<"Invalid JSON response from AI: ">> \o body.exc.msg))
    ELSE body

generate_cypher_query(provider, b) ==
    LET body == ParseCompletion(provider, b) IN
    IF ~body.raised THEN body
    ELSE IF body.exc.type = "JSONDecodeError"
    THEN Ret(CypherFailure(<<"Invalid JSON response from AI: ">> \o body.exc.msg))
    ELSE Ret(CypherFailure(<<"AI query generation failed: ">> \o body.exc.msg))

Lower(tok) ==
    CASE tok = "Employee" -> "employee"
      [] tok = "SKILL" -> "skill"
      [] tok = "Project" -> "project"
      [] tok = "Department" -> "department"
      [] OTHER -> tok
LowerText(s) == [i \in 1..Len(s) |-> Lower(s[i])]

generate_suggested_questions_EmployeeFirst(question) ==
    LET q == LowerText(question)
        suggestions ==
            IF Contains(q, <<"employee">>)
            THEN <<"What skills does this employee have?", "Which projects is this employee working on?">>
            ELSE IF Contains(q, <<"skill">>)
            THEN <<"Which employees have advanced level in this skill?", "What projects require this skill?">>
            ELSE IF Contains(q, <<"project">>)
            THEN <<"Which departments are involved in this project?", "What skills are needed for this project?">>
            ELSE IF Contains(q, <<"department">>)
            THEN <<"Show me the reporting structure in this department", "What projects is this department working on?">>
            ELSE <<"Can you show me the organizational structure?", "Which employees have the most skills?">>
    IN  SubSeq(suggestions, 1, IF Len(suggestions) < 2 THEN Len(suggestions) ELSE 2)

generate_suggested_questions(question) ==
    LET q == LowerText(question)
        suggestions ==
            IF Contains(q, <<"employee">>) /\ ~Contains(q, <<"skill">>)
            THEN <<"What skills does this employee have?", "Which projects is this employee working on?">>
            ELSE IF Contains(q, <<"skill">>)
            THEN <<"Which employees have advanced level in this skill?", "What projects require this skill?">>
            ELSE IF Contains(q, <<"project">>)
            THEN <<"Which departments are involved in this project?", "What skills are needed for this project?">>
            ELSE IF Contains(q, <<"department">>)
            THEN <<"Show me the reporting structure in this department", "What projects is this department working on?">>
            ELSE <<"Can you show me the organizational structure?", "Which employees have the most skills?">>
    IN  SubSeq(suggestions, 1, IF Len(suggestions) < 2 THEN Len(suggestions) ELSE 2)

generate_fallback_response(question, data, query_type) ==
    IF data = <<>>
    THEN [success |-> TRUE,
          answer |-> <<"## No Employee Data Found: nothing matching **">> \o question \o <<"**">>,
          data_table |-> None,
          suggested_questions |-> <<"Show me all departments", "Which employees have the most skills?">>]
    ELSE LET count == IntStr(Len(data))
             answer ==
                 IF query_type = <<"count">>
                 THEN <<"## Found ">> \o count \o <<" Matching Records for **">> \o question \o <<"**">>
                 ELSE IF query_type = <<"aggregate">>
                 THEN <<"## Analysis Complete: **">> \o count \o <<" aggregated results** for **">> \o question \o <<"**">>
                 ELSE <<"## Here's What I Found: **">> \o count \o <<" relevant records** for **">> \o question \o <<"**">>
         IN  [success |-> TRUE, answer |-> answer, data_table |-> data,
              suggested_questions |-> generate_suggested_questions(question)]

NarrationError(msg) ==
    [success |-> FALSE,
     error |-> <<"AI response generation failed: ">> \o msg,
     answer |-> <<"I apologize, but I encountered an error while generating the response. Please try again.">>,
     data_table |-> None,
     suggested_questions |-> <<>>]

generate_sophisticated_response(provider, question, data, query_type, b) ==
    LET body == ParseCompletion(provider, b) IN
    IF ~body.raised
    THEN IF "suggested_questions" \notin DOMAIN body.value
         THEN Ret(SetItem(body.value, "suggested_questions", generate_suggested_questions(question)))
         ELSE body
    ELSE IF body.exc.type = "JSONDecodeError"
    THEN Ret(generate_fallback_response(question, data, query_type))
    ELSE Ret(NarrationError(body.exc.msg))

\* ---------------------------------------------------------- Neo4jHelper
\* What the driver does during one call: whether GraphDatabase.driver
\* succeeds, and what the session does with the query (the records it
\* yields, or the error it raises).
DriverOk(records) == [create |-> "ok", verify |-> "ok", run |-> "ok", records |-> records]
DriverRunError(kind) == [create |-> "ok", verify |-> "ok", run |-> kind, records |-> <<>>]
DriverCreateError == [create |-> "fail", verify |-> "fail", run |-> "ServiceUnavailable", records |-> <<>>]
DriverUnreachable == [create |-> "ok", verify |-> "fail", run |-> "ServiceUnavailable", records |-> <<>>]

\* Neo4jHelper.connect: the new value of self.driver and the value returned
connect(driver, env) ==
    IF env.create = "ok"
    THEN [driver |-> "driver", value |-> TRUE]
    ELSE [driver |-> driver, value |-> FALSE]

\* one value of a record: nodes become their property mapping, lists are
\* converted element-wise, anything else is kept
ConvertValue(value) ==
    IF value.kind = "list"
    THEN [kind |-> "list",
          items |-> [i \in 1..Len(value.items) |->
                        IF value.items[i].kind = "node"
                        THEN [kind |-> "map", val |-> value.items[i].props]
                        ELSE value.items[i]]]
    ELSE IF value.kind = "node"
    THEN [kind |-> "map", val |-> value.props]
    ELSE value

ConvertRecord(record) == [key \in DOMAIN record |-> ConvertValue(record[key])]

\* the body of the try block of execute_query
\* (created: connect made a driver in this call; ran: session.run was called)
execute_query_body(driver, cypher_query, parameters, env) ==
    LET called == driver = None
        c == connect(driver, env)
        d == IF called THEN c.driver ELSE driver
        created == called /\ c.value
    IN
    IF d = None
    THEN [driver |-> d, created |-> created, ran |-> FALSE,
          out |-> Raise(Exc("AttributeError", <<"'NoneType' object has no attribute 'session'">>))]
    ELSE IF env.run # "ok"
    THEN [driver |-> d, created |-> created, ran |-> TRUE,
          out |-> Raise(Exc(env.run, <<env.run, ": ">> \o cypher_query))]
    ELSE LET data == [i \in 1..Len(env.records) |-> ConvertRecord(env.records[i])]
         IN  [driver |-> d, created |-> created, ran |-> TRUE,
              out |-> Ret([success |-> TRUE, data |-> data, count |-> Len(data)])]

execute_query_Unguarded(driver, cypher_query, parameters, env) ==
    execute_query_body(driver, cypher_query, parameters, env)

\* Neo4jHelper.execute_query: the new value of self.driver and the outcome
execute_query(driver, cypher_query, parameters, env) ==
    LET body == execute_query_body(driver, cypher_query, parameters, env) IN
    IF body.out.raised
    THEN [driver |-> body.driver, created |-> body.created, ran |-> body.ran,
          out |-> Ret([success |-> FALSE, error |-> body.out.exc.msg, data |-> <<>>, count |-> 0])]
    ELSE body

test_connection_Reconnect(driver, env) ==
    LET c == connect(driver, env)
        d == c.driver
    IN
    IF d = None THEN [driver |-> d, created |-> c.value, ran |-> FALSE, out |-> Ret(FALSE)]
    ELSE IF env.verify # "ok" THEN [driver |-> d, created |-> c.value, ran |-> FALSE, out |-> Ret(FALSE)]
    ELSE [driver |-> d, created |-> c.value, ran |-> FALSE, out |-> Ret(TRUE)]

\* Neo4jHelper.test_connection: the new value of self.driver and the outcome;
\* driver.verify_connectivity() is the only use made of the driver
test_connection(driver, env) ==
    LET called == driver = None
        c == connect(driver, env)
        d == IF called THEN c.driver ELSE driver
        created == called /\ c.value
    IN
    IF d = None THEN [driver |-> d, created |-> created, ran |-> FALSE, out |-> Ret(FALSE)]
    ELSE IF env.verify # "ok" THEN [driver |-> d, created |-> created, ran |-> FALSE, out |-> Ret(FALSE)]
    ELSE [driver |-> d, created |-> created, ran |-> FALSE, out |-> Ret(TRUE)]

\* -------------------------------------------------------- ExcelProcessor
\* A workbook is [readable, sheets]; sheets maps a sheet name to a table
\* [columns, rows], each row a mapping from column name to cell.  A cell is
\* a token: a number ("1"), a text ("D1") or the blank cell NaN.
Range(s) == {s[i] : i \in DOMAIN s}
NaN == "NaN"
NumericCells == {"0", "1", "2", "3", "4"}

Table(cols, tuples) ==
    [columns |-> cols,
     rows |-> [i \in DOMAIN tuples |->
                  [c \in Range(cols) |-> tuples[i][CHOOSE j \in DOMAIN cols : cols[j] = c]]]]

required_sheets ==
    <<"EMPLOYEES", "DESIGNATIONS", "DEPARTMENTS", "PROJECTS",
      "SKILLS", "PROJECT_ASSIGNMENTS", "EMPLOYEE_SKILLS", "REPORTING_STRUCTURE">>

required_columns ==
    [sheet \in Range(required_sheets) |->
        CASE sheet = "EMPLOYEES" -> <<"emp_id", "name">>
          [] sheet = "DESIGNATIONS" -> <<"designation_id", "designation_name">>
          [] sheet = "DEPARTMENTS" -> <<"department_id", "department_name">>
          [] sheet = "PROJECTS" -> <<"project_id", "project_name">>
          [] sheet = "SKILLS" -> <<"skill_id", "skill_name">>
          [] sheet = "PROJECT_ASSIGNMENTS" -> <<"emp_id", "project_id">>
          [] sheet = "EMPLOYEE_SKILLS" -> <<"emp_id", "skill_id">>
          [] OTHER -> <<"emp_id", "manager_id">>]

\* the members of a list that satisfy a test, in list order
Missing(wanted, have) == SelectSeq(wanted, LAMBDA x : x \notin have)

validate_sheet_columns_Skip(wb) == [value |-> TRUE, notices |-> <<>>]

\* one notice per sheet; all_valid only if no sheet misses a column
validate_sheet_columns(wb) ==
    LET missing_cols(sheet) == Missing(required_columns[sheet], Range(wb.sheets[sheet].columns))
        notice(sheet) ==
            IF missing_cols(sheet) # <<>>
            THEN <<"[x] Sheet '", sheet, "' missing columns: ">> \o missing_cols(sheet)
            ELSE <<"[ok] ", sheet, ": All required columns present">>
    IN  [value |-> \A sheet \in Range(required_sheets) : missing_cols(sheet) = <<>>,
         notices |-> [i \in DOMAIN required_sheets |-> notice(required_sheets[i])]]

validate_excel_file(wb) ==
    IF ~wb.readable
    THEN [value |-> FALSE, notices |-> <<<<"[x] Error reading Excel file: ", "File is not a zip file">>>>]
    ELSE LET missing_sheets == Missing(required_sheets, DOMAIN wb.sheets) IN
         IF missing_sheets # <<>>
         THEN [value |-> FALSE, notices |-> <<<<"[x] Missing required sheets: ">> \o missing_sheets>>]
         ELSE validate_sheet_columns(wb)

\* re.sub(r'[^a-zA-Z0-9_]', '', col.lower().replace(' ', '_'))
CleanName(col) ==
    CASE col = "Designation ID" -> "designation_id"
      [] col = "Department-ID" -> "departmentid"
      [] OTHER -> col

\* a column holding some text cell has dtype object
ObjectColumn(df, col) == \E i \in DOMAIN df.rows : df.rows[i][col] \notin NumericCells \cup {NaN}

\* _clean_dataframe: rename the columns, blank cells of object columns become ''
clean_dataframe(df) ==
    LET cols == [j \in DOMAIN df.columns |-> CleanName(df.columns[j])]
        raw(c) == df.columns[CHOOSE j \in DOMAIN cols : cols[j] = c]
    IN  [columns |-> cols,
         rows |-> [i \in DOMAIN df.rows |->
                      [c \in Range(cols) |->
                          LET v == df.rows[i][raw(c)] IN
                          IF v = NaN /\ ObjectColumn(df, raw(c)) THEN "" ELSE v]]]

\* int(cell): the canonical numeral, or ValueError
PyInt_Default(v) == Ret("0")

PyInt(v) ==
    IF v \in NumericCells THEN Ret(v)
    ELSE IF v = NaN THEN Raise(Exc("ValueError", <<"cannot convert float NaN to integer">>))
    ELSE Raise(Exc("ValueError", <<"invalid literal for int() with base 10: '", v, "'">>))

\* str(cell)
PyStr(v) == IF v = NaN THEN "nan" ELSE v

\* ------------------------------------------------------ the graph store
\* nodes and relationships in creation order; a relationship names its end
\* nodes by their position in nodes; constraints is the set of labels that
\* have a uniqueness constraint.
Labels == {"Employee", "Skill", "Project", "Department", "Designation"}
EmptyStore == [nodes |-> <<>>, rels |-> <<>>, constraints |-> {}]

\* MATCH (n:label {key})
MatchNodes(store, label, key) ==
    {i \in DOMAIN store.nodes : store.nodes[i].label = label /\ store.nodes[i].key = key}

MergeNode_Create(store, label, key, name) ==
    [store EXCEPT !.nodes = Append(@, [label |-> label, key |-> key, name |-> name])]

\* MERGE (n:label {key}) SET n.name = name
MergeNode(store, label, key, name) ==
    IF MatchNodes(store, label, key) = {}
    THEN [store EXCEPT !.nodes = Append(@, [label |-> label, key |-> key, name |-> name])]
    ELSE [store EXCEPT !.nodes =
             [i \in DOMAIN @ |-> IF i \in MatchNodes(store, label, key) THEN [@[i] EXCEPT !.name = name] ELSE @[i]]]

PairBefore(p, q) == p[1] < q[1] \/ (p[1] = q[1] /\ p[2] <= q[2])

RECURSIVE CreateRelationships(_, _, _)
CreateRelationships(rels, type, pairs) ==
    IF pairs = {} THEN rels
    ELSE LET p == CHOOSE p \in pairs : \A q \in pairs : PairBefore(p, q) IN
         CreateRelationships(Append(rels, [type |-> type, src |-> p[1], dst |-> p[2]]), type, pairs \ {p})

\* MATCH (a) MATCH (b) MERGE (a)-[:type]->(b): one relationship for every
\* matched pair that has none yet; nothing when either MATCH is empty
MergeRelationship(store, type, srcs, dsts) ==
    LET linked(p) == \E k \in DOMAIN store.rels :
                         store.rels[k] = [type |-> type, src |-> p[1], dst |-> p[2]]
    IN  [store EXCEPT !.rels = CreateRelationships(@, type, {p \in srcs \X dsts : ~linked(p)})]

\* MATCH (n) DETACH DELETE n
clear_existing_data_Keep(store) == store

clear_existing_data(store) == [store EXCEPT !.nodes = <<>>, !.rels = <<>>]

\* The progress of one import step: the store, the log of the statements
\* the store ran, the number of session.run calls of the step, and whether
\* (and why) the step raised.
NoExc == Exc("", <<>>)
StepState(store, ops) ==
    [store |-> store, ops |-> ops, runs |-> 0, raised |-> FALSE, exc |-> NoExc, cause |-> "none"]

Op(kind, what) == [kind |-> kind, what |-> what]

\* session.run(statement): the failAt-th call of the step raises, any
\* other call applies the statement
SessionRun(st, failAt, op, effect) ==
    IF st.raised THEN st
    ELSE IF st.runs + 1 = failAt
    THEN [st EXCEPT !.runs = @ + 1, !.raised = TRUE, !.cause = "driver",
                    !.exc = Exc("ServiceUnavailable", <<"Failed to write to ", op.what>>)]
    ELSE [st EXCEPT !.runs = @ + 1, !.store = effect, !.ops = Append(@, op)]

PyRaise(st, e) == [st EXCEPT !.raised = TRUE, !.exc = e, !.cause = "data"]

\* one row of _import_designations, _import_departments, _import_skills
\* or _import_projects
import_reference_row(st, row, label, id_col, name_col, failAt) ==
    LET key == PyStr(Get(row, id_col, ""))
        name == PyStr(Get(row, name_col, Get(row, "name", "")))
    IN  SessionRun(st, failAt, Op("node", label), MergeNode(st.store, label, key, name))

\* MATCH both ends, MERGE the relationship
RunMergeRelationship(st, failAt, type, src_label, src_key, dst_label, dst_key) ==
    SessionRun(st, failAt, Op("edge", type),
               MergeRelationship(st.store, type,
                                 MatchNodes(st.store, src_label, src_key),
                                 MatchNodes(st.store, dst_label, dst_key)))

import_employees_row_MatchFirst(st, row, failAt) ==
    LET emp_id == PyInt(Get(row, "emp_id", "0")) IN
    IF emp_id.raised THEN PyRaise(st, emp_id.exc)
    ELSE LET designation_id == PyStr(Get(row, "designation_id", ""))
             department_id == PyStr(Get(row, "department_id", ""))
             s1 == IF designation_id # "" /\ MatchNodes(st.store, "Designation", designation_id) = {}
                   THEN SessionRun(st, failAt, Op("node", "Employee"), st.store)
                   ELSE SessionRun(st, failAt, Op("node", "Employee"),
                                   MergeNode(st.store, "Employee", emp_id.value, PyStr(Get(row, "name", ""))))
             s2 == IF designation_id # ""
                   THEN RunMergeRelationship(s1, failAt, "HAS_DESIGNATION", "Employee", emp_id.value, "Designation", designation_id)
                   ELSE s1
         IN  IF department_id # ""
             THEN RunMergeRelationship(s2, failAt, "BELONGS_TO", "Employee", emp_id.value, "Department", department_id)
             ELSE s2

\* one row of _import_employees: the node, then the edge to its
\* designation and to its department when the foreign key is not empty
import_employees_row(st, row, failAt) ==
    LET emp_id == PyInt(Get(row, "emp_id", "0")) IN
    IF emp_id.raised THEN PyRaise(st, emp_id.exc)
    ELSE LET designation_id == PyStr(Get(row, "designation_id", ""))
             department_id == PyStr(Get(row, "department_id", ""))
             s1 == SessionRun(st, failAt, Op("node", "Employee"),
                              MergeNode(st.store, "Employee", emp_id.value, PyStr(Get(row, "name", ""))))
             s2 == IF designation_id # ""
                   THEN RunMergeRelationship(s1, failAt, "HAS_DESIGNATION", "Employee", emp_id.value, "Designation", designation_id)
                   ELSE s1
         IN  IF department_id # ""
             THEN RunMergeRelationship(s2, failAt, "BELONGS_TO", "Employee", emp_id.value, "Department", department_id)
             ELSE s2

\* one row of _import_project_assignments
import_project_assignments_row(st, row, failAt) ==
    LET emp_id == PyInt(Get(row, "emp_id", "0")) IN
    IF emp_id.raised THEN PyRaise(st, emp_id.exc)
    ELSE RunMergeRelationship(st, failAt, "WORKS_ON", "Employee", emp_id.value,
                              "Project", PyStr(Get(row, "project_id", "")))

\* one row of _import_employee_skills
import_employee_skills_row(st, row, failAt) ==
    LET emp_id == PyInt(Get(row, "emp_id", "0")) IN
    IF emp_id.raised THEN PyRaise(st, emp_id.exc)
    ELSE RunMergeRelationship(st, failAt, "HAS_SKILL", "Employee", emp_id.value,
                              "Skill", PyStr(Get(row, "skill_id", "")))

\* one row of _import_reporting_structure
import_reporting_structure_row(st, row, failAt) ==
    LET emp_id == PyInt(Get(row, "emp_id", "0")) IN
    IF emp_id.raised THEN PyRaise(st, emp_id.exc)
    ELSE LET manager_id == PyInt(Get(row, "manager_id", "0")) IN
         IF manager_id.raised THEN PyRaise(st, manager_id.exc)
         ELSE RunMergeRelationship(st, failAt, "REPORTS_TO", "Employee", emp_id.value,
                                   "Employee", manager_id.value)

steps_EmployeesFirst ==
    <<"Employees", "Designations", "Departments", "Skills", "Projects",
      "Project Assignments", "Employee Skills", "Reporting Structure">>

\* the names of the import steps, in the order they run
steps ==
    <<"Designations", "Departments", "Skills", "Projects", "Employees",
      "Project Assignments", "Employee Skills", "Reporting Structure">>

\* the sheet a step reads
StepSheet(step_name) ==
    CASE step_name = "Designations" -> "DESIGNATIONS"
      [] step_name = "Departments" -> "DEPARTMENTS"
      [] step_name = "Skills" -> "SKILLS"
      [] step_name = "Projects" -> "PROJECTS"
      [] step_name = "Employees" -> "EMPLOYEES"
      [] step_name = "Project Assignments" -> "PROJECT_ASSIGNMENTS"
      [] step_name = "Employee Skills" -> "EMPLOYEE_SKILLS"
      [] OTHER -> "REPORTING_STRUCTURE"

import_row(step_name, st, row, failAt) ==
    CASE step_name = "Designations" -> import_reference_row(st, row, "Designation", "designation_id", "designation_name", failAt)
      [] step_name = "Departments" -> import_reference_row(st, row, "Department", "department_id", "department_name", failAt)
      [] step_name = "Skills" -> import_reference_row(st, row, "Skill", "skill_id", "skill_name", failAt)
      [] step_name = "Projects" -> import_reference_row(st, row, "Project", "project_id", "project_name", failAt)
      [] step_name = "Employees" -> import_employees_row(st, row, failAt)
      [] step_name = "Project Assignments" -> import_project_assignments_row(st, row, failAt)
      [] step_name = "Employee Skills" -> import_employee_skills_row(st, row, failAt)
      [] OTHER -> import_reporting_structure_row(st, row, failAt)

\* for _, row in df.iterrows(): the rows in order, up to the first raise
RECURSIVE import_rows(_, _, _, _, _)
import_rows(step_name, st, rows, i, failAt) ==
    IF st.raised \/ i > Len(rows) THEN st
    ELSE import_rows(step_name, import_row(step_name, st, rows[i], failAt), rows, i + 1, failAt)

\* step_func() of one step on the cleaned sheet it reads
step_func(step_name, store, ops, wb, failAt) ==
    import_rows(step_name, StepState(store, ops),
                clean_dataframe(wb.sheets[StepSheet(step_name)]).rows, 1, failAt)

step_failed_Continue(step_name, e) ==
    [abort |-> FALSE, out |-> Ret(FALSE),
     notice |-> <<"[x] Error importing ", step_name, ": ">> \o e.msg]

\* except Exception around step_func(): report the step, close, return False
step_failed(step_name, e) ==
    [abort |-> TRUE, out |-> Ret(FALSE),
     notice |-> <<"[x] Error importing ", step_name, ": ">> \o e.msg]

outer_except_Reraise(e) ==
    [out |-> Raise(e), notice |-> <<"[x] Error initializing database: ">> \o e.msg]

\* except Exception around the whole of import_excel_to_neo4j
outer_except(e) ==
    [out |-> Ret(FALSE), notice |-> <<"[x] Error initializing database: ">> \o e.msg]

\* _create_constraints: the labels in statement order
constraint_labels == <<"Employee", "Skill", "Project", "Department", "Designation">>

\* ------------------------------------------------- inputs of the model
Questions == {<<"Hi">>, <<"list", "Employee", "SKILL">>}
ApiKeys == {<<>>, <<"AIza-key">>}
Uris == {<<>>, <<"neo4j+s://db">>}
Providers == {OpenAI, Gemini, "Claude"}

GenBackendOutcomes ==
    {BackendRaise(<<"429 rate limit exceeded">>),
     BackendNone,
     BackendText(<<"Sorry, I cannot help with that.">>),
     BackendText(<<FENCE, JSONTAG, WS, "J_count", WS, FENCE>>),
     BackendText(<<"J_list">>),
     BackendText(<<FENCE, WS, "J_aggregate", WS, FENCE, WS>>),
     BackendText(<<"J_notype">>),
     BackendText(<<"J_smalltalk">>),
     BackendText(<<"J_error">>),
     BackendText(<<"J_nokey">>),
     BackendText(<<"J_array">>)}

NarrBackendOutcomes ==
    {BackendRaise(<<"503 service unavailable">>),
     BackendText(<<"Here is your answer">>),
     BackendText(<<FENCE, JSONTAG, WS, "J_answer", WS, FENCE>>),
     BackendText(<<"J_noanswer">>)}

\* questions of at most MaxWords words
SuggestWords == {"Employee", "SKILL", "Project", "Department", "list"}
WordSeqs(n) == UNION {[1..k -> SuggestWords] : k \in 0..n}

\* what a model puts before and after the JSON text of a completion
Leads == {<<>>, <<WS>>, <<FENCE, JSONTAG, WS>>, <<FENCE, WS>>, <<WS, FENCE, JSONTAG, WS>>}
Trails == {<<>>, <<WS>>, <<WS, FENCE>>, <<WS, FENCE, WS>>}

\* what the "Hello" completion of a connection test can do
TestBackendOutcomes ==
    {BackendRaise(<<"401 invalid api key">>), BackendNone, BackendText(<<>>), BackendText(<<"Hello!">>)}

CountRecord == [n |-> [kind |-> "scalar", val |-> "3"]]
NodeRecord == [e |-> [kind |-> "node", props |-> "emp_id=1"],
               skills |-> [kind |-> "list", items |-> <<[kind |-> "node", props |-> "skill_id=S1"]>>]]
DriverRecords == {CountRecord, NodeRecord}
ResultSets(records) == {[i \in 1..n |-> r] : n \in 0..MaxRows, r \in records}

\* what the store does to the query of a question
DriverOutcomes ==
    {DriverCreateError, DriverRunError("CypherSyntaxError")}
        \cup {DriverOk(rs) : rs \in ResultSets({NodeRecord})}

\* what the store does to a call made on the long-lived helper
HelperDriverOutcomes ==
    {DriverCreateError, DriverUnreachable,
     DriverRunError("CypherSyntaxError"), DriverRunError("ConstraintError")}
        \cup {DriverOk(rs) : rs \in ResultSets(DriverRecords)}

HelperQueries == {Q_COUNT, <<"MATCH (e:Employee) RETURN e LIMIT $limit">>}
HelperParameters == {None, "limit=5"}

\* the workbooks uploaded for import, by file name
RefSheets(designations, departments, skills, projects) ==
    [DESIGNATIONS |-> Table(<<"designation_id", "designation_name">>, designations),
     DEPARTMENTS |-> Table(<<"department_id", "department_name">>, departments),
     SKILLS |-> Table(<<"skill_id", "skill_name">>, skills),
     PROJECTS |-> Table(<<"project_id", "project_name">>, projects)]

LinkSheets(assignments, employee_skills, reporting) ==
    [PROJECT_ASSIGNMENTS |-> Table(<<"emp_id", "project_id">>, assignments),
     EMPLOYEE_SKILLS |-> Table(<<"emp_id", "skill_id">>, employee_skills),
     REPORTING_STRUCTURE |-> Table(<<"emp_id", "manager_id">>, reporting)]

Sheets(a, b) == [n \in DOMAIN a \cup DOMAIN b |-> IF n \in DOMAIN a THEN a[n] ELSE b[n]]

SmallRefs == RefSheets(<<<<"D1", "Engineer">>>>, <<<<"DP1", "Research">>>>, <<<<"S1", "Python">>>>, <<<<"P1", "Apollo">>>>)
NoLinks == LinkSheets(<<>>, <<>>, <<>>)

\* duplicate keys, a renamed optional column, blank and dangling references
CompanySheets ==
    Sheets(Sheets(RefSheets(<<<<"D1", "Engineer">>, <<"D1", "Senior Engineer">>, <<"D2", "Manager">>>>,
                            <<<<"DP1", "Research">>>>,
                            <<<<"S1", "Python">>>>,
                            <<<<"P1", "Apollo">>>>),
                  LinkSheets(<<<<"1", "P1">>, <<"1", "P1">>, <<"3", "P1">>, <<"2", "P9">>>>,
                             <<<<"2", "S1">>, <<"2", "S7">>>>,
                             <<<<"2", "1">>, <<"1", "4">>>>)),
           [EMPLOYEES |-> Table(<<"emp_id", "name", "Designation ID", "department_id">>,
                                <<<<"1", "Ann", "D1", "DP1">>,
                                  <<"2", "Bob", "D9", NaN>>,
                                  <<"1", "Ann B.", "D2", "DP1">>>>)])

StartupSheets ==
    Sheets(Sheets(SmallRefs, NoLinks),
           [EMPLOYEES |-> Table(<<"emp_id", "name">>, <<<<"3", "Eve">>>>)])

Workbook(file) ==
    CASE file = "company.xlsx" -> [readable |-> TRUE, sheets |-> CompanySheets]
      [] file = "startup.xlsx" -> [readable |-> TRUE, sheets |-> StartupSheets]
      [] file = "startup_notes.xlsx" ->
             [readable |-> TRUE,
              sheets |-> Sheets(StartupSheets, [NOTES |-> Table(<<"note">>, <<<<"draft">>>>)])]
      [] file = "bad_id.xlsx" ->
             [readable |-> TRUE,
              sheets |-> Sheets([EMPLOYEES |-> Table(<<"emp_id", "name">>, <<<<"3", "Eve">>, <<"E-4", "Dan">>>>)],
                                StartupSheets)]
      [] file = "no_skills.xlsx" ->
             [readable |-> TRUE,
              sheets |-> [n \in DOMAIN StartupSheets \ {"SKILLS"} |-> StartupSheets[n]]]
      [] file = "no_name.xlsx" ->
             [readable |-> TRUE,
              sheets |-> Sheets([EMPLOYEES |-> Table(<<"emp_id", "Full Name">>, <<<<"3", "Eve">>>>)],
                                StartupSheets)]
      [] OTHER -> [readable |-> FALSE, sheets |-> <<>>]

Files ==
    {"company.xlsx", "startup.xlsx", "startup_notes.xlsx", "bad_id.xlsx",
     "no_skills.xlsx", "no_name.xlsx", "notes.txt"}

\* what GraphDatabase.driver and one session.run outside the steps can do
CreateOutcomes == {"ok", "ConfigurationError"}
RunOutcomes == {"ok", "ServiceUnavailable"}
\* the constraint statements that raise in one _create_constraints
ConstraintFailures == {{}, {"Skill"}, Labels}
\* which session.run of a step raises (0: none)
FailAts == 0..MaxFailAt

\* ------------------------------------------------------------ app state
\* chat_history and the locals of the running process_user_query; calls is
\* the log of the calls made for the question in progress (or, when idle,
\* for the last question); nq counts the questions asked.
VARIABLES chat_history, pc, question, ai_helper, neo4j_helper, cypher_query, query_type, data, calls, nq

\* the number of drivers the helpers of process_user_query have created
VARIABLES pipeline_drivers

\* A Neo4jHelper that lives across calls: its driver field, the last call
\* made on it, the number of calls made and of drivers created.
VARIABLES helper_driver, helper_last, helper_calls, drivers_created

\* The graph store and the locals of the running import_excel_to_neo4j:
\* the uploaded file, the step in progress, the statements the store ran
\* for this import, the notices shown, the value returned, where the
\* import raised, and the state of its driver.  prev_load is the file and
\* the per-label node counts of the import before, when it returned True;
\* loads counts the imports started.
VARIABLES store, imp_pc, imp_file, imp_step, imp_ops, imp_notices, imp_out, imp_fault, imp_driver, prev_load, loads

\* st.session_state.database_initialized, set by initialize_database
VARIABLES database_initialized

\* The last call made of a method of AIHelper that reads no state: its
\* name, its argument and what it returned.
VARIABLES fn_last

\* What the sidebar leaves in st.session_state: the two flags set by
\* test_connections and its last run.
VARIABLES neo4j_connected, ai_configured, conn_last

appVars == <<chat_history, pc, question, ai_helper, neo4j_helper, cypher_query, query_type, data, calls, nq, pipeline_drivers>>
helperVars == <<helper_driver, helper_last, helper_calls, drivers_created>>
importVars == <<store, imp_pc, imp_file, imp_step, imp_ops, imp_notices, imp_out, imp_fault, imp_driver, prev_load, loads,
                database_initialized>>
sessionVars == <<neo4j_connected, ai_configured, conn_last>>
fnVars == <<fn_last>>
vars == <<appVars, helperVars, importVars, sessionVars, fnVars>>

NoTest ==
    [tested |-> FALSE, turns |-> 0, api_key |-> <<>>, provider |-> Gemini, env |-> DriverCreateError,
     b |-> BackendNone, neo4j |-> Ret(FALSE), asked |-> FALSE, ai |-> Ret(FALSE), results |-> <<>>]

UserTurn(content) == [role |-> "user", content |-> content]
AssistantTurn(content) == [role |-> "assistant", content |-> content]
Call(fn, arg, env, out) == [fn |-> fn, arg |-> arg, env |-> env, out |-> out]

CONFIG_WARNING == <<"[!] Please configure both API key and database connection first.">>
QUERY_HEADER == <<"\n\n---\n\n**Executed Cypher Query:**\n">>
NO_QUERY_GENERATION_ERROR == <<"[x] No Cypher query executed - error in query generation">>
NO_QUERY_CONVERSATIONAL == <<"[i] No Cypher query executed - this was a conversational response">>
QUERY_FAILED == <<"\n\n[x] **Query Failed:** ">>
RECORDS_FOUND == <<"\n\n**Records Found:** ">>
CODE_OPEN == <<FENCE, "cypher\n">>
CODE_CLOSE == <<"\n", FENCE>>

NoFault == [at |-> "none", step |-> 0, cause |-> "none"]
Fault(at, step, cause) == [at |-> at, step |-> step, cause |-> cause]

\* per-label node counts, as the verification query reports them
Counts(s) == [l \in Labels |-> Cardinality({i \in DOMAIN s.nodes : s.nodes[i].label = l})]
NoLoad == [file |-> "", counts |-> Counts(EmptyStore)]

\* initialize_session_state
Init ==
    /\ chat_history = <<>>
    /\ pc = "idle"
    /\ question = <<>>
    /\ ai_helper = None
    /\ neo4j_helper = None
    /\ cypher_query = <<>>
    /\ query_type = <<>>
    /\ data = <<>>
    /\ calls = <<>>
    /\ nq = 0
    /\ pipeline_drivers = 0
    /\ neo4j_connected = FALSE
    /\ ai_configured = FALSE
    /\ conn_last = NoTest
    /\ fn_last = [fn |-> "none"]
    /\ helper_driver = None
    /\ helper_last = None
    /\ helper_calls = 0
    /\ drivers_created = 0
    /\ store = EmptyStore
    /\ imp_pc = "idle"
    /\ imp_file = ""
    /\ imp_step = 0
    /\ imp_ops = <<>>
    /\ imp_notices = <<>>
    /\ imp_out = Ret(FALSE)
    /\ imp_fault = NoFault
    /\ imp_driver = "none"
    /\ prev_load = NoLoad
    /\ loads = 0
    /\ database_initialized = FALSE

\* process_user_query returns: its locals are gone
Return ==
    /\ pc' = "idle"
    /\ question' = <<>>
    /\ ai_helper' = None
    /\ neo4j_helper' = None
    /\ cypher_query' = <<>>
    /\ query_type' = <<>>
    /\ data' = <<>>

Record_Silent(content) ==
    /\ chat_history' = chat_history
    /\ Return

\* append the assistant turn and return
Record(content) ==
    /\ chat_history' = Append(chat_history, AssistantTurn(content))
    /\ Return

\* full_response of the generation-failure branch
GenerationErrorTurn_NoNote(error_msg) == <<"[x] ">> \o error_msg

GenerationErrorTurn(error_msg) ==
    <<"[x] ">> \o error_msg \o QUERY_HEADER \o NO_QUERY_GENERATION_ERROR

\* full_response of the smalltalk / out-of-scope branch
ConversationalTurn_Unannotated(msg) == msg

ConversationalTurn(msg) ==
    msg \o QUERY_HEADER \o NO_QUERY_CONVERSATIONAL

\* full_response of the failed-execution branch
QueryFailedTurn_NoQuery(error, query) ==
    <<"[x] Database query failed: ">> \o error \o QUERY_HEADER \o QUERY_FAILED \o error

QueryFailedTurn(error, query) ==
    <<"[x] Database query failed: ">> \o error
        \o QUERY_HEADER \o CODE_OPEN \o query \o CODE_CLOSE
        \o QUERY_FAILED \o error

\* full_response of the answered question
AnswerTurn(response_text, query, d) ==
    response_text
        \o QUERY_HEADER \o CODE_OPEN \o query \o CODE_CLOSE
        \o RECORDS_FOUND \o IntStr(Len(d))

format_basic_response_NoList(d, q, qt) ==
    IF d = <<>>
    THEN <<"I couldn't find any data matching your query.">>
    ELSE LET count == IntStr(Len(d)) IN
         IF qt = <<"count">> THEN <<"I found ">> \o count \o <<" results.">>
         ELSE <<"I found ">> \o count \o <<" matching records.">>

format_basic_response(d, q, qt) ==
    IF d = <<>>
    THEN <<"I couldn't find any data matching your query.">>
    ELSE LET count == IntStr(Len(d)) IN
         IF qt = <<"count">> THEN <<"I found ">> \o count \o <<" results.">>
         ELSE IF qt = <<"list">> THEN <<"Here are ">> \o count \o <<" items I found:">>
         ELSE <<"I found ">> \o count \o <<" matching records.">>

\* the precondition gate of process_user_query
ConfigMissing_KeyOnly(api_key, neo4j_uri) == api_key = <<>>

ConfigMissing(api_key, neo4j_uri) == api_key = <<>> \/ neo4j_uri = <<>>

BeginQuestion_UserTurnAfterGate(q, api_key, provider, neo4j_uri) ==
    /\ pc = "idle"
    /\ nq < MaxQuestions
    /\ nq' = nq + 1
    /\ LET h == Append(chat_history, UserTurn(q))
           entry == Call("process_user_query",
                         [question |-> q, api_key |-> api_key, neo4j_uri |-> neo4j_uri],
                         None, None)
       IN
       IF ConfigMissing(api_key, neo4j_uri)
       THEN /\ chat_history' = Append(chat_history, AssistantTurn(CONFIG_WARNING))
            /\ calls' = <<entry>>
            /\ Return
       ELSE LET ai == AIHelper_init(api_key, provider) IN
            IF ai.raised
            THEN /\ chat_history' = Append(h, AssistantTurn(ai.exc.msg))
                 /\ calls' = <<entry, Call("AIHelper", api_key, None, ai)>>
                 /\ Return
            ELSE /\ chat_history' = h
                 /\ calls' = <<entry, Call("AIHelper", api_key, None, Ret("AIHelper")),
                               Call("Neo4jHelper", neo4j_uri, None, Ret("Neo4jHelper"))>>
                 /\ pc' = "generate"
                 /\ question' = q
                 /\ ai_helper' = ai.value
                 /\ neo4j_helper' = [uri |-> neo4j_uri, driver |-> None]
                 /\ UNCHANGED <<cypher_query, query_type, data>>
    /\ UNCHANGED <<pipeline_drivers, helperVars, importVars, sessionVars, fnVars>>

\* process_user_query up to the first backend call: the user turn, the
\* configuration gate and the construction of the two clients
BeginQuestion(q, api_key, provider, neo4j_uri) ==
    /\ pc = "idle"
    /\ nq < MaxQuestions
    /\ nq' = nq + 1
    /\ LET h == Append(chat_history, UserTurn(q))
           entry == Call("process_user_query",
                         [question |-> q, api_key |-> api_key, neo4j_uri |-> neo4j_uri],
                         None, None)
       IN
       IF ConfigMissing(api_key, neo4j_uri)
       THEN /\ chat_history' = Append(h, AssistantTurn(CONFIG_WARNING))
            /\ calls' = <<entry>>
            /\ Return
       ELSE LET ai == AIHelper_init(api_key, provider) IN
            IF ai.raised
            THEN /\ chat_history' = Append(h, AssistantTurn(ai.exc.msg))
                 /\ calls' = <<entry, Call("AIHelper", api_key, None, ai)>>
                 /\ Return
            ELSE /\ chat_history' = h
                 /\ calls' = <<entry, Call("AIHelper", api_key, None, Ret("AIHelper")),
                               Call("Neo4jHelper", neo4j_uri, None, Ret("Neo4jHelper"))>>
                 /\ pc' = "generate"
                 /\ question' = q
                 /\ ai_helper' = ai.value
                 /\ neo4j_helper' = [uri |-> neo4j_uri, driver |-> None]
                 /\ UNCHANGED <<cypher_query, query_type, data>>
    /\ UNCHANGED <<pipeline_drivers, helperVars, importVars, sessionVars, fnVars>>

\* the branches taken on the outcome of generate_cypher_query
GenerateDispatch(out) ==
    IF out.raised
    THEN Record(out.exc.msg)
    ELSE LET cypher_generation == out.value IN
         IF ~Get(cypher_generation, "success", FALSE)
         THEN Record(GenerationErrorTurn(Get(cypher_generation, "error", <<"Could not understand your question.">>)))
         ELSE IF "response_type" \in DOMAIN cypher_generation
                 /\ cypher_generation.response_type \in {<<"smalltalk">>, <<"error">>}
         THEN Record(ConversationalTurn(Get(cypher_generation, "message", <<"Hello! How can I help you?">>)))
         ELSE IF "cypher_query" \notin DOMAIN cypher_generation
         THEN Record(<<"'cypher_query'">>)
         ELSE /\ cypher_query' = cypher_generation.cypher_query
              /\ query_type' = Get(cypher_generation, "query_type", <<"search">>)
              /\ pc' = "execute"
              /\ UNCHANGED <<chat_history, question, ai_helper, neo4j_helper, data>>

\* ai_helper.generate_cypher_query(question)
Generate(b) ==
    /\ pc = "generate"
    /\ LET out == generate_cypher_query(ai_helper.provider, b) IN
       /\ calls' = Append(calls, Call("generate_cypher_query", question, b, out))
       /\ GenerateDispatch(out)
    /\ UNCHANGED <<nq, pipeline_drivers, helperVars, importVars, sessionVars, fnVars>>

ExecuteDispatch_NarrateAnyway(r) ==
    IF r.out.raised
    THEN Record(r.out.exc.msg)
    ELSE LET query_result == r.out.value IN
         /\ data' = query_result.data
         /\ neo4j_helper' = [neo4j_helper EXCEPT !.driver = r.driver]
         /\ pc' = "narrate"
         /\ UNCHANGED <<chat_history, question, ai_helper, cypher_query, query_type>>

\* the branches taken on the outcome of execute_query
ExecuteDispatch(r) ==
    IF r.out.raised
    THEN Record(r.out.exc.msg)
    ELSE LET query_result == r.out.value IN
         IF ~query_result.success
         THEN Record(QueryFailedTurn(query_result.error, cypher_query))
         ELSE /\ data' = query_result.data
              /\ neo4j_helper' = [neo4j_helper EXCEPT !.driver = r.driver]
              /\ pc' = "narrate"
              /\ UNCHANGED <<chat_history, question, ai_helper, cypher_query, query_type>>

\* neo4j_helper.execute_query(cypher_query)
Execute(env) ==
    /\ pc = "execute"
    /\ LET r == execute_query(neo4j_helper.driver, cypher_query, None, env) IN
       /\ calls' = Append(calls, Call("execute_query", cypher_query, env, r.out))
       /\ pipeline_drivers' = IF r.created THEN pipeline_drivers + 1 ELSE pipeline_drivers
       /\ ExecuteDispatch(r)
    /\ UNCHANGED <<nq, helperVars, importVars, sessionVars, fnVars>>

\* the narration text chosen and the turn recorded
NarrateDispatch(out) ==
    IF out.raised
    THEN Record(out.exc.msg)
    ELSE LET response == out.value IN
         IF ~response.success
         THEN Record(AnswerTurn(format_basic_response(data, question, query_type), cypher_query, data))
         ELSE IF "answer" \notin DOMAIN response
         THEN Record(<<"'answer'">>)
         ELSE Record(AnswerTurn(response.answer, cypher_query, data))

\* ai_helper.generate_sophisticated_response(question, data, query_type, cypher_query)
Narrate(b) ==
    /\ pc = "narrate"
    /\ LET out == generate_sophisticated_response(ai_helper.provider, question, data, query_type, b) IN
       /\ calls' = Append(calls, Call("generate_sophisticated_response", question, b, out))
       /\ NarrateDispatch(out)
    /\ UNCHANGED <<nq, pipeline_drivers, helperVars, importVars, sessionVars, fnVars>>

\* the "Clear Chat" button
ClearChat ==
    /\ pc = "idle"
    /\ chat_history # <<>>
    /\ chat_history' = <<>>
    /\ UNCHANGED <<pc, question, ai_helper, neo4j_helper, cypher_query, query_type, data, calls, nq, pipeline_drivers>>
    /\ UNCHANGED <<helperVars, importVars, sessionVars, fnVars>>

\* helper.execute_query(q, parameters) on the long-lived helper
HelperExecuteQuery(q, parameters, env) ==
    /\ helper_calls < MaxHelperCalls
    /\ LET r == execute_query(helper_driver, q, parameters, env) IN
       /\ helper_driver' = r.driver
       /\ helper_last' = [fn |-> "execute_query", arg |-> q, parameters |-> parameters, env |-> env, before |-> helper_driver,
                         created |-> r.created, ran |-> r.ran, out |-> r.out]
       /\ drivers_created' = IF r.created THEN drivers_created + 1 ELSE drivers_created
    /\ helper_calls' = helper_calls + 1
    /\ UNCHANGED <<appVars, importVars, sessionVars, fnVars>>

\* helper.test_connection() on the long-lived helper
HelperTestConnection(env) ==
    /\ helper_calls < MaxHelperCalls
    /\ LET r == test_connection(helper_driver, env) IN
       /\ helper_driver' = r.driver
       /\ helper_last' = [fn |-> "test_connection", arg |-> <<>>, parameters |-> None, env |-> env, before |-> helper_driver,
                         created |-> r.created, ran |-> r.ran, out |-> r.out]
       /\ drivers_created' = IF r.created THEN drivers_created + 1 ELSE drivers_created
    /\ helper_calls' = helper_calls + 1
    /\ UNCHANGED <<appVars, importVars, sessionVars, fnVars>>

NEO4J_OK == <<"[ok] Neo4j connection successful!">>
NEO4J_FAILED == <<"[x] Neo4j connection failed!">>
AI_OK == <<"[ok] AI API connection successful!">>
AI_FAILED == <<"[x] AI API connection failed!">>
AI_NO_KEY == <<"[!] AI API key not provided">>
AIConnectionError(msg) == <<"[x] AI API connection error: ">> \o msg

TestConnections_NewSession(api_key, provider, env, b) ==
    /\ pc = "idle"
    /\ imp_pc = "idle"
    /\ LET n == test_connection(None, env).out
           init == AIHelper_init(api_key, provider)
           ai == IF init.raised THEN init ELSE AIHelper_test_connection(provider, b)
           neo4j_result == IF n.value THEN NEO4J_OK ELSE NEO4J_FAILED
           ai_result == IF api_key = <<>> THEN AI_NO_KEY
                        ELSE IF ai.raised THEN AIConnectionError(ai.exc.msg)
                        ELSE IF ai.value THEN AI_OK ELSE AI_FAILED
       IN  /\ neo4j_connected' = n.value
           /\ ai_configured' = IF api_key = <<>> THEN ai_configured
                                ELSE IF ai.raised THEN FALSE ELSE ai.value
           /\ conn_last' = [tested |-> TRUE, turns |-> Len(chat_history), api_key |-> api_key, provider |-> provider, env |-> env, b |-> b,
                            neo4j |-> n, asked |-> api_key # <<>> /\ ~init.raised,
                            ai |-> IF api_key = <<>> THEN Ret(FALSE) ELSE ai,
                            results |-> <<neo4j_result, ai_result>>]
    /\ chat_history' = <<>>
    /\ UNCHANGED <<pc, question, ai_helper, neo4j_helper, cypher_query, query_type, data, calls, nq, pipeline_drivers>>
    /\ UNCHANGED <<helperVars, importVars, fnVars>>

\* the "Test Connections" button: test_connections(api_key, neo4j_uri, ...)
\* with a new Neo4jHelper and, when a key is given, a new AIHelper
TestConnections(api_key, provider, env, b) ==
    /\ pc = "idle"
    /\ imp_pc = "idle"
    /\ LET n == test_connection(None, env).out
           init == AIHelper_init(api_key, provider)
           ai == IF init.raised THEN init ELSE AIHelper_test_connection(provider, b)
           neo4j_result == IF n.value THEN NEO4J_OK ELSE NEO4J_FAILED
           ai_result == IF api_key = <<>> THEN AI_NO_KEY
                        ELSE IF ai.raised THEN AIConnectionError(ai.exc.msg)
                        ELSE IF ai.value THEN AI_OK ELSE AI_FAILED
       IN  /\ neo4j_connected' = n.value
           /\ ai_configured' = IF api_key = <<>> THEN ai_configured
                                ELSE IF ai.raised THEN FALSE ELSE ai.value
           /\ conn_last' = [tested |-> TRUE, turns |-> Len(chat_history), api_key |-> api_key, provider |-> provider, env |-> env, b |-> b,
                            neo4j |-> n, asked |-> api_key # <<>> /\ ~init.raised,
                            ai |-> IF api_key = <<>> THEN Ret(FALSE) ELSE ai,
                            results |-> <<neo4j_result, ai_result>>]
    /\ UNCHANGED <<appVars, helperVars, importVars, fnVars>>

\* import_excel_to_neo4j returns or raises, and initialize_database, which
\* called it, sets database_initialized when it returned True (the summary
\* it then asks a new Neo4jHelper for only adds a message to the page)
ImportReturn(out, notices, fault, driver) ==
    /\ imp_pc' = "idle"
    /\ database_initialized' = (database_initialized \/ (~out.raised /\ out.value))
    /\ imp_out' = out
    /\ imp_notices' = notices
    /\ imp_fault' = fault
    /\ imp_driver' = driver

\* import_excel_to_neo4j up to the first statement: validation, reading
\* and cleaning the sheets, GraphDatabase.driver
BeginImport(file, create) ==
    /\ imp_pc = "idle"
    /\ loads < MaxLoads
    /\ loads' = loads + 1
    /\ imp_file' = file
    /\ imp_ops' = <<>>
    /\ prev_load' = IF loads > 0 /\ imp_out = Ret(TRUE)
                    THEN [file |-> imp_file, counts |-> Counts(store)]
                    ELSE NoLoad
    /\ store' = store
    /\ LET valid == validate_excel_file(Workbook(file)) IN
       IF ~valid.value
       THEN /\ ImportReturn(Ret(FALSE), valid.notices, NoFault, "none")
            /\ imp_step' = 0
       ELSE IF create # "ok"
       THEN LET h == outer_except(Exc(create, <<"URI scheme not supported">>)) IN
            /\ ImportReturn(h.out, Append(valid.notices, h.notice), Fault("driver", 0, "driver"), "none")
            /\ imp_step' = 0
       ELSE /\ imp_pc' = "clear"
            /\ imp_step' = 0
            /\ imp_notices' = valid.notices
            /\ imp_out' = Ret(FALSE)
            /\ imp_fault' = NoFault
            /\ imp_driver' = "open"
            /\ UNCHANGED database_initialized
    /\ UNCHANGED <<appVars, helperVars, sessionVars, fnVars>>

\* session.run("MATCH (n) DETACH DELETE n")
ClearData(env) ==
    /\ imp_pc = "clear"
    /\ IF env # "ok"
       THEN LET h == outer_except(Exc(env, <<"Unable to retrieve routing information">>)) IN
            /\ ImportReturn(h.out, Append(imp_notices, h.notice), Fault("clear", 0, "driver"), imp_driver)
            /\ UNCHANGED <<store, imp_ops>>
       ELSE /\ store' = clear_existing_data(store)
            /\ imp_ops' = Append(imp_ops, Op("clear", "all"))
            /\ imp_pc' = "constraints"
            /\ UNCHANGED <<imp_notices, imp_out, imp_fault, imp_driver, database_initialized>>
    /\ UNCHANGED <<imp_file, imp_step, prev_load, loads, appVars, helperVars, sessionVars, fnVars>>

\* self._create_constraints(session): a statement that raises is reported
\* as a warning and the next one is tried
CreateConstraints(fails) ==
    /\ imp_pc = "constraints"
    /\ LET made == SelectSeq(constraint_labels, LAMBDA l : l \notin fails)
           failed == SelectSeq(constraint_labels, LAMBDA l : l \in fails)
       IN  /\ store' = [store EXCEPT !.constraints = @ \cup Range(made)]
           /\ imp_ops' = imp_ops \o [i \in DOMAIN made |-> Op("constraint", made[i])]
           /\ imp_notices' = imp_notices \o [i \in DOMAIN failed |-> <<"[!] Constraint might already exist: ", failed[i]>>]
    /\ imp_pc' = "step"
    /\ imp_step' = 1
    /\ UNCHANGED <<imp_file, imp_out, imp_fault, imp_driver, prev_load, loads, database_initialized>>
    /\ UNCHANGED <<appVars, helperVars, sessionVars, fnVars>>

\* one iteration of the loop over steps
ImportStep(failAt) ==
    /\ imp_pc = "step"
    /\ LET step_name == steps[imp_step]
           r == step_func(step_name, store, imp_ops, Workbook(imp_file), failAt)
           h == step_failed(step_name, r.exc)
       IN  /\ store' = r.store
           /\ imp_ops' = r.ops
           /\ IF r.raised /\ h.abort
              THEN /\ ImportReturn(h.out, Append(imp_notices, h.notice), Fault("step", imp_step, r.cause), "closed")
                   /\ UNCHANGED imp_step
              ELSE /\ imp_notices' = IF r.raised THEN Append(imp_notices, h.notice) ELSE imp_notices
                   /\ imp_fault' = IF r.raised THEN Fault("step", imp_step, r.cause) ELSE imp_fault
                   /\ imp_pc' = IF imp_step = Len(steps) THEN "verify" ELSE "step"
                   /\ imp_step' = IF imp_step = Len(steps) THEN imp_step ELSE imp_step + 1
                   /\ UNCHANGED <<imp_out, imp_driver, database_initialized>>
    /\ UNCHANGED <<imp_file, prev_load, loads, appVars, helperVars, sessionVars, fnVars>>

SortedLabels == <<"Department", "Designation", "Employee", "Project", "Skill">>

\* the verification query, the summary, driver.close() and return True
Verify(env) ==
    /\ imp_pc = "verify"
    /\ IF env # "ok"
       THEN LET h == outer_except(Exc(env, <<"Connection reset">>)) IN
            /\ ImportReturn(h.out, Append(imp_notices, h.notice), Fault("verify", 0, "driver"), imp_driver)
            /\ UNCHANGED imp_ops
       ELSE LET present == SelectSeq(SortedLabels, LAMBDA l : Counts(store)[l] > 0)
                summary == [i \in DOMAIN present |-> <<"**", present[i], ":** ">> \o IntStr(Counts(store)[present[i]])]
            IN  /\ ImportReturn(Ret(TRUE),
                                imp_notices \o <<<<"[ok] Database initialized successfully!">>>> \o summary,
                                imp_fault, "closed")
                /\ imp_ops' = Append(imp_ops, Op("verify", "count"))
    /\ UNCHANGED <<store, imp_file, imp_step, prev_load, loads, appVars, helperVars, sessionVars, fnVars>>

Next ==
    \/ \E q \in Questions, k \in ApiKeys, p \in Providers, u \in Uris : BeginQuestion(q, k, p, u)
    \/ \E b \in GenBackendOutcomes : Generate(b)
    \/ \E env \in DriverOutcomes : Execute(env)
    \/ \E b \in NarrBackendOutcomes : Narrate(b)
    \/ ClearChat

Spec == Init /\ [][Next]_vars

NextHelper ==
    \/ \E q \in HelperQueries, ps \in HelperParameters, env \in HelperDriverOutcomes : HelperExecuteQuery(q, ps, env)
    \/ \E env \in HelperDriverOutcomes : HelperTestConnection(env)

SpecHelper == Init /\ [][NextHelper]_vars

Q_LABEL_COUNTS == <<"MATCH (n) RETURN labels(n)[0] as label, count(n) as count ORDER BY label">>

\* the records the store yields for Q_LABEL_COUNTS
LabelCountRecords(s) ==
    LET present == SelectSeq(SortedLabels, LAMBDA l : Counts(s)[l] > 0) IN
    [i \in DOMAIN present |->
        [label |-> [kind |-> "scalar", val |-> present[i]],
         count |-> [kind |-> "scalar", val |-> Counts(s)[present[i]]]]]

SessionQuery_Locked(run) ==
    /\ imp_pc = "idle"
    /\ helper_calls < MaxHelperCalls
    /\ LET env == IF run = "ok" THEN DriverOk(LabelCountRecords(store)) ELSE DriverRunError(run)
           r == execute_query(None, Q_LABEL_COUNTS, None, env)
       IN  /\ helper_last' = [fn |-> "execute_query", arg |-> Q_LABEL_COUNTS, parameters |-> None, env |-> env,
                              before |-> None, created |-> r.created, ran |-> r.ran, out |-> r.out,
                              during |-> imp_pc, step |-> imp_step, load |-> loads, seen |-> store]
    /\ helper_calls' = helper_calls + 1
    /\ UNCHANGED <<helper_driver, drivers_created, appVars, importVars, sessionVars, fnVars>>

\* a question of another browser session reaches execute_query while this
\* session's import is wherever it is: a new Neo4jHelper, a new driver, and
\* the statement runs on the graph as the import has left it so far
SessionQuery(run) ==
    /\ helper_calls < MaxHelperCalls
    /\ LET env == IF run = "ok" THEN DriverOk(LabelCountRecords(store)) ELSE DriverRunError(run)
           r == execute_query(None, Q_LABEL_COUNTS, None, env)
       IN  /\ helper_last' = [fn |-> "execute_query", arg |-> Q_LABEL_COUNTS, parameters |-> None, env |-> env,
                              before |-> None, created |-> r.created, ran |-> r.ran, out |-> r.out,
                              during |-> imp_pc, step |-> imp_step, load |-> loads, seen |-> store]
    /\ helper_calls' = helper_calls + 1
    /\ UNCHANGED <<helper_driver, drivers_created, appVars, importVars, sessionVars, fnVars>>

LoadFiles == {"company.xlsx", "startup.xlsx"}

\* an import in one session and questions in another
NextLoadQuery ==
    \/ \E file \in LoadFiles : BeginImport(file, "ok")
    \/ ClearData("ok")
    \/ CreateConstraints({})
    \/ ImportStep(0)
    \/ Verify("ok")
    \/ \E run \in RunOutcomes : SessionQuery(run)

SpecLoadQuery == Init /\ [][NextLoadQuery]_vars

\* One browser session: a question, a connection test or a database
\* initialisation runs to its end before the next event is taken.
AppQuestions == {<<"list", "Employee", "SKILL">>}
AppGenOutcomes == {BackendNone, BackendText(<<"J_list">>)}
AppDriverOutcomes == {DriverCreateError, DriverOk(<<NodeRecord>>)}
AppNarrOutcomes == {BackendText(<<"J_answer">>)}
AppFiles == {"startup.xlsx"}
AppTestDriverOutcomes == {DriverUnreachable, DriverOk(<<>>)}
AppTestBackendOutcomes == {BackendText(<<"Hello!">>)}

NextApp ==
    \/ \E q \in AppQuestions, k \in ApiKeys, u \in Uris :
           imp_pc = "idle" /\ BeginQuestion(q, k, Gemini, u)
    \/ \E b \in AppGenOutcomes : Generate(b)
    \/ \E env \in AppDriverOutcomes : Execute(env)
    \/ \E b \in AppNarrOutcomes : Narrate(b)
    \/ imp_pc = "idle" /\ ClearChat
    \/ \E k \in ApiKeys, env \in AppTestDriverOutcomes, b \in AppTestBackendOutcomes :
           TestConnections(k, Gemini, env, b)
    \/ \E file \in AppFiles : pc = "idle" /\ BeginImport(file, "ok")
    \/ \E env \in RunOutcomes : ClearData(env)
    \/ CreateConstraints({})
    \/ ImportStep(0)
    \/ Verify("ok")

SpecApp == Init /\ [][NextApp]_vars

\* the "Test Connections" button alone, with every outcome of the two probes
NextConn ==
    \E k \in ApiKeys, p \in Providers, env \in HelperDriverOutcomes, b \in TestBackendOutcomes :
        TestConnections(k, p, env, b)

SpecConn == Init /\ [][NextConn]_vars

\* ai_helper._generate_suggested_questions(question, data, query_type)
SuggestedQuestions(q) ==
    /\ fn_last' = [fn |-> "_generate_suggested_questions", question |-> q,
                   out |-> generate_suggested_questions(q)]
    /\ UNCHANGED <<appVars, helperVars, importVars, sessionVars>>

\* one of the two generation methods on a completion lead + J + trail
ParseFenced(method, provider, J, lead, trail) ==
    /\ LET b == BackendText(lead \o <<J>> \o trail)
           plain == BackendText(<<J>>)
       IN  fn_last' = [fn |-> method, provider |-> provider, J |-> J, lead |-> lead, trail |-> trail,
                       out |-> IF method = "generate_cypher_query"
                               THEN generate_cypher_query(provider, b)
                               ELSE generate_sophisticated_response(provider, <<"Hi">>, <<>>, <<"list">>, b),
                       plain |-> IF method = "generate_cypher_query"
                                 THEN generate_cypher_query(provider, plain)
                                 ELSE generate_sophisticated_response(provider, <<"Hi">>, <<>>, <<"list">>, plain)]
    /\ UNCHANGED <<appVars, helperVars, importVars, sessionVars>>

NextPure ==
    \/ \E q \in WordSeqs(MaxWords) : SuggestedQuestions(q)
    \/ \E method \in {"generate_cypher_query", "generate_sophisticated_response"}, provider \in {OpenAI, Gemini}, J \in JsonTexts, lead \in Leads, trail \in Trails :
           ParseFenced(method, provider, J, lead, trail)

SpecPure == Init /\ [][NextPure]_vars

NextImport ==
    \/ \E file \in Files, create \in CreateOutcomes : BeginImport(file, create)
    \/ \E env \in RunOutcomes : ClearData(env)
    \/ \E fails \in ConstraintFailures : CreateConstraints(fails)
    \/ \E failAt \in FailAts : ImportStep(failAt)
    \/ \E env \in RunOutcomes : Verify(env)

SpecImport == Init /\ [][NextImport]_vars

\* ------------------------------------------------------------- claims
GEN == "generate_cypher_query"
EXEC == "execute_query"
NARR == "generate_sophisticated_response"
BackendFns == {GEN, EXEC, NARR}

LastTurn == chat_history[Len(chat_history)]
\* a question has been fully processed and its turns are still in the history
Done == pc = "idle" /\ chat_history # <<>>
HasCall(fn) == \E i \in DOMAIN calls : calls[i].fn = fn
TheCall(fn) == calls[CHOOSE i \in DOMAIN calls : calls[i].fn = fn]
Returned(fn) == HasCall(fn) /\ ~TheCall(fn).out.raised
BackendCallNames ==
    LET bc == SelectSeq(calls, LAMBDA c : c.fn \in BackendFns) IN [i \in DOMAIN bc |-> bc[i].fn]
IsConversational(m) ==
    "response_type" \in DOMAIN m /\ m.response_type \in {<<"smalltalk">>, <<"error">>}
ExecSucceeded == Returned(EXEC) /\ TheCall(EXEC).out.value.success
ExecFailed == Returned(EXEC) /\ ~TheCall(EXEC).out.value.success
GenFailed == Returned(GEN) /\ ~Get(TheCall(GEN).out.value, "success", FALSE)
GenConversational ==
    Returned(GEN) /\ Get(TheCall(GEN).out.value, "success", FALSE) /\ IsConversational(TheCall(GEN).out.value)
NarrFailed == Returned(NARR) /\ ~TheCall(NARR).out.value.success
AskedQueryType == Get(TheCall(GEN).out.value, "query_type", <<"search">>)
\* the text in front of the query section of an answered question's turn
NarrationOf(content, query, n) ==
    LET suffix == QUERY_HEADER \o CODE_OPEN \o query \o CODE_CLOSE \o RECORDS_FOUND \o IntStr(n)
    IN  SubSeq(content, 1, Len(content) - Len(suffix))

\* C1: whenever the store executed the synthesized query successfully, the
\* assistant turn recorded for the question contains the narration text, the
\* exact query string passed to execute_query and the number of rows
\* returned, whatever generate_sophisticated_response returned.
C1_RecordedTriple ==
    (Done /\ ExecSucceeded) =>
        LET e == TheCall(EXEC)
            c == LastTurn.content
        IN  /\ LastTurn.role = "assistant"
            /\ Contains(c, CODE_OPEN \o e.arg \o CODE_CLOSE)
            /\ Contains(c, RECORDS_FOUND \o IntStr(e.out.value.count))
            /\ (Returned(NARR) /\ "answer" \in DOMAIN TheCall(NARR).out.value /\ ~NarrFailed)
                   => StartsWith(c, TheCall(NARR).out.value.answer)

\* C2: the backend calls of one question are a prefix of generate, execute,
\* narrate (in that order, each at most once); execute only follows a
\* successful generation that is neither smalltalk nor error, and narrate
\* only follows a successful execution.
C2_CallOrder ==
    /\ \E n \in 0..3 : BackendCallNames = SubSeq(<<GEN, EXEC, NARR>>, 1, n)
    /\ HasCall(EXEC) =>
           /\ Returned(GEN)
           /\ Get(TheCall(GEN).out.value, "success", FALSE)
           /\ ~IsConversational(TheCall(GEN).out.value)
    /\ HasCall(NARR) => ExecSucceeded

C2_Witness == pc = "idle" /\ BackendCallNames = <<GEN, EXEC, NARR>>

\* C3: the user's question is in the history before the gate and before any
\* backend call: while a question is in progress the last turn is its user
\* turn, and once it is processed its user turn directly precedes its
\* assistant turn, on every path.
C3_UserTurnFirst ==
    /\ pc # "idle" =>
           /\ chat_history # <<>>
           /\ LastTurn = UserTurn(question)
           /\ calls[1].arg.question = question
    /\ Done =>
           /\ Len(chat_history) >= 2
           /\ chat_history[Len(chat_history) - 1] = UserTurn(calls[1].arg.question)
           /\ LastTurn.role = "assistant"

C3_Witness ==
    /\ Done
    /\ Len(chat_history) = 4
    /\ ExecFailed
    /\ chat_history[2] = AssistantTurn(CONFIG_WARNING)
    /\ chat_history[3].content # chat_history[1].content

\* C4: with no API key or no store URI configured, the question is answered
\* by the configuration warning and nothing is constructed or called.
C4_ConfigGate ==
    (calls # <<>> /\ (calls[1].arg.api_key = <<>> \/ calls[1].arg.neo4j_uri = <<>>)) =>
        /\ pc = "idle"
        /\ Len(calls) = 1
        /\ chat_history # <<>> => LastTurn = AssistantTurn(CONFIG_WARNING)

C4_Witness ==
    /\ Done
    /\ calls[1].arg.api_key # <<>>
    /\ calls[1].arg.neo4j_uri = <<>>
    /\ LastTurn = AssistantTurn(CONFIG_WARNING)

\* C5: when generate_cypher_query reports failure, exactly one assistant
\* turn is recorded, holding the surfaced error and the note that no query
\* was executed, and neither execute_query nor narration is called.
C5_GenerationFailure ==
    (Done /\ GenFailed) =>
        LET g == TheCall(GEN).out.value
            c == LastTurn.content
        IN  /\ LastTurn.role = "assistant"
            /\ chat_history[Len(chat_history) - 1].role = "user"
            /\ Contains(c, g.error)
            /\ Contains(c, NO_QUERY_GENERATION_ERROR)
            /\ ~HasCall(EXEC)
            /\ ~HasCall(NARR)

C5_Witness ==
    /\ Done
    /\ GenFailed
    /\ TheCall(GEN).env.kind = "text"
    /\ Contains(LastTurn.content, <<"Invalid JSON response from AI: ">>)

\* C6: a smalltalk or error response runs no query; its turn holds the
\* model's message and the "no query executed" annotation, which is not the
\* annotation of a query that was executed and failed (and conversely).
C6_Conversational ==
    /\ (Done /\ GenConversational) =>
           LET g == TheCall(GEN).out.value
               c == LastTurn.content
           IN  /\ ~HasCall(EXEC)
               /\ LastTurn.role = "assistant"
               /\ "message" \in DOMAIN g => StartsWith(c, g.message)
               /\ Contains(c, NO_QUERY_CONVERSATIONAL)
               /\ ~Contains(c, QUERY_FAILED)
    /\ (Done /\ ExecFailed) =>
           /\ Contains(LastTurn.content, QUERY_FAILED)
           /\ ~Contains(LastTurn.content, NO_QUERY_CONVERSATIONAL)

C6_Witness ==
    /\ Done
    /\ GenConversational
    /\ TheCall(GEN).out.value.response_type = <<"error">>
    /\ StartsWith(LastTurn.content, OUT_OF_SCOPE_MSG)

\* C7: when the store reports failure for the synthesized query, the turn
\* holds the exact failing query text and the store's error message, and
\* narration is never called.
C7_ExecutionFailure ==
    (Done /\ ExecFailed) =>
        LET e == TheCall(EXEC)
            c == LastTurn.content
        IN  /\ LastTurn.role = "assistant"
            /\ e.out.value.error # <<>>
            /\ Contains(c, CODE_OPEN \o e.arg \o CODE_CLOSE)
            /\ Contains(c, e.out.value.error)
            /\ ~HasCall(NARR)

C7_Witness ==
    /\ Done
    /\ ExecFailed
    /\ TheCall(EXEC).env.run = "CypherSyntaxError"
    /\ TheCall(EXEC).env.create = "ok"
    /\ TheCall(EXEC).arg = Q_LIST

\* the three classes of query_type format_basic_response tells apart
PhraseClass(qt) == IF qt \in {<<"count">>, <<"list">>} THEN qt ELSE <<"search">>

\* C8 (as amended): after a successful execution whose narration reports
\* failure, the recorded narration text is the output of
\* format_basic_response and not the answer field; for no rows it is a fixed
\* no-data message, otherwise it reports the row count, with distinct
\* phrasing for count, for list and for any other type (aggregate included).
C8_FallbackFormatter ==
    (Done /\ ExecSucceeded /\ NarrFailed) =>
        LET e == TheCall(EXEC)
            rows == e.out.value.data
            q == calls[1].arg.question
            qt == AskedQueryType
            c == LastTurn.content
            text == NarrationOf(c, e.arg, Len(rows))
        IN  /\ c = AnswerTurn(text, e.arg, rows)
            /\ text # TheCall(NARR).out.value.answer
            /\ ~Contains(c, TheCall(NARR).out.value.answer)
            /\ rows = <<>> => text = <<"I couldn't find any data matching your query.">>
            /\ rows # <<>> =>
                   /\ Contains(text, IntStr(Len(rows)))
                   /\ \A other \in {<<"count">>, <<"list">>, <<"search">>} \ {PhraseClass(qt)} :
                          text # format_basic_response(rows, q, other)
                   /\ qt = <<"aggregate">> => text = format_basic_response(rows, q, <<"search">>)

C8_Witness ==
    /\ Done
    /\ ExecSucceeded
    /\ NarrFailed
    /\ AskedQueryType = <<"aggregate">>
    /\ TheCall(EXEC).out.value.count > 0

\* the four classes of query_type the claim tells apart
PhraseClass4(qt) == IF qt \in {<<"count">>, <<"aggregate">>, <<"list">>} THEN qt ELSE <<"search">>

\* C8 (as stated): ... that formatter reports the row count and uses
\* distinct phrasing for each of count, aggregate, list and any other type.
C8_FourPhrasings ==
    (Done /\ ExecSucceeded /\ NarrFailed) =>
        LET e == TheCall(EXEC)
            rows == e.out.value.data
            q == calls[1].arg.question
            qt == AskedQueryType
            text == NarrationOf(LastTurn.content, e.arg, Len(rows))
        IN  /\ text # TheCall(NARR).out.value.answer
            /\ Contains(text, IntStr(Len(rows)))
            /\ \A other \in {<<"count">>, <<"aggregate">>, <<"list">>, <<"search">>} \ {PhraseClass4(qt)} :
                   text # format_basic_response(rows, q, other)

HelperExecuted == helper_calls > 0 /\ helper_last.fn = "execute_query"
DriverFails(before, env) == (before = None /\ env.create # "ok") \/ env.run # "ok"

\* C9: execute_query never raises; on every driver failure it returns
\* success false with a non-empty error string, empty data and count 0; on
\* success count is the number of rows in data.
C9_ExecuteQueryTotal ==
    HelperExecuted =>
        LET o == helper_last.out IN
        /\ ~o.raised
        /\ o.value.success = ~DriverFails(helper_last.before, helper_last.env)
        /\ ~o.value.success =>
               /\ o.value.error # <<>>
               /\ o.value.data = <<>>
               /\ o.value.count = 0
               /\ DOMAIN o.value = {"success", "error", "data", "count"}
        /\ o.value.success =>
               /\ o.value.count = Len(o.value.data)
               /\ Len(o.value.data) = Len(helper_last.env.records)

C9_Witness ==
    /\ HelperExecuted
    /\ helper_last.before = "driver"
    /\ helper_last.env.run = "ConstraintError"
    /\ ~helper_last.out.value.success
    /\ helper_last.parameters # None

IsCypherFailure(m) ==
    /\ DOMAIN m = {"success", "error", "cypher_query", "query_type", "entities", "relationships"}
    /\ m.success = FALSE
    /\ m.error # <<>>
    /\ m.cypher_query = <<>>
    /\ m.query_type = <<"error">>
    /\ m.entities = <<>>
    /\ m.relationships = <<>>

\* the completion of the backend parses as JSON
ParsesAsJson(b) == b.kind = "text" /\ ~JsonLoads(CleanResponse(b.text)).raised
ParsedJson(b) == JsonLoads(CleanResponse(b.text)).value

\* C10 (as amended): generate_cypher_query never raises and returns a
\* mapping; on backend failure, on parse failure and when the completion
\* parses to a JSON value that is not an object, the mapping is exactly the
\* failure mapping; when it parses to a JSON object, it is that object with
\* success set to true.
C10_GenerateTotal ==
    \A i \in DOMAIN calls :
        calls[i].fn = GEN =>
            LET b == calls[i].env
                o == calls[i].out
            IN  /\ ~o.raised
                /\ IF ParsesAsJson(b) /\ ParsedJson(b).t = "obj"
                   THEN /\ o.value = SetItem(ParsedJson(b).v, "success", TRUE)
                        /\ o.value.success = TRUE
                   ELSE IsCypherFailure(o.value)

C10_Witness ==
    /\ Done
    /\ HasCall(GEN)
    /\ TheCall(GEN).env = BackendText(<<"J_array">>)
    /\ IsCypherFailure(TheCall(GEN).out.value)
    /\ Contains(LastTurn.content, <<"AI query generation failed: ">>)

\* C10 (as stated): ... on parse success it is the parsed object with
\* success set to true.
C10_ParsedMeansSuccess ==
    \A i \in DOMAIN calls :
        (calls[i].fn = GEN /\ ParsesAsJson(calls[i].env)) =>
            /\ ~calls[i].out.raised
            /\ calls[i].out.value.success = TRUE

\* C11: generate_sophisticated_response returns success true only for an
\* answer the model authored: whenever the backend call fails or the
\* completion does not parse as JSON, it does not raise and the response it
\* returns has success false.
C11_SuccessMeansModelAuthored ==
    \A i \in DOMAIN calls :
        (calls[i].fn = NARR /\ ~ParsesAsJson(calls[i].env)) =>
            /\ ~calls[i].out.raised
            /\ calls[i].out.value.success = FALSE

INVALID_JSON_TAG == <<"Invalid JSON response from AI: ">>

\* the response format the prompt of generate_cypher_query asks for
FollowsSchema(parsed) ==
    /\ parsed.t = "obj"
    /\ "response_type" \in DOMAIN parsed.v
    /\ \/ /\ parsed.v.response_type = <<"cypher">>
          /\ {"cypher_query", "query_type"} \subseteq DOMAIN parsed.v
       \/ /\ parsed.v.response_type \in {<<"smalltalk">>, <<"error">>}
          /\ "message" \in DOMAIN parsed.v

\* the completion is not JSON, or is JSON that violates the response format
Malformed(b) == b.kind = "text" /\ (ParsesAsJson(b) => ~FollowsSchema(ParsedJson(b)))

\* C12: a completion that is not JSON or that violates the response format
\* makes generate_cypher_query return the failure mapping tagged as invalid
\* model output, and the failure returned when the backend call raises does
\* not carry that tag.
C12_MalformedTagged ==
    \A i \in DOMAIN calls :
        calls[i].fn = GEN =>
            LET b == calls[i].env
                o == calls[i].out
            IN  /\ Malformed(b) =>
                       /\ ~o.raised
                       /\ IsCypherFailure(o.value)
                       /\ StartsWith(o.value.error, INVALID_JSON_TAG)
                /\ b.kind = "raise" =>
                       /\ ~o.raised
                       /\ IsCypherFailure(o.value)
                       /\ ~StartsWith(o.value.error, INVALID_JSON_TAG)

\* an import has been started and has returned
ImportDone == imp_pc = "idle" /\ loads > 0

\* all eight required tables are there, each with its required columns
HasRequiredTables(wb) ==
    /\ wb.readable
    /\ \A sheet \in Range(required_sheets) :
           /\ sheet \in DOMAIN wb.sheets
           /\ Range(required_columns[sheet]) \subseteq Range(wb.sheets[sheet].columns)

\* C13 (as amended): a workbook is accepted only if all eight required
\* tables are present with their required columns; when a required table or
\* column is missing, the import returns False in the same step, with no
\* driver created and no statement run, and the store is what it was.
C13_ValidationGate ==
    /\ [](imp_ops # <<>> => HasRequiredTables(Workbook(imp_file)))
    /\ [][(loads' = loads + 1 /\ ~HasRequiredTables(Workbook(imp_file')))
              => /\ imp_pc' = "idle"
                 /\ imp_out' = Ret(FALSE)
                 /\ imp_driver' = "none"
                 /\ imp_ops' = <<>>
                 /\ store' = store]_vars

C13_Witness ==
    /\ ImportDone
    /\ imp_file = "no_name.xlsx"
    /\ imp_out = Ret(FALSE)
    /\ imp_ops = <<>>
    /\ imp_driver = "none"
    /\ store.nodes # <<>>
    /\ store.rels # <<>>

\* C13 (as stated): a workbook is accepted only if exactly the eight
\* required tables are present, each with its required columns.
C13_ExactlyEightTables ==
    imp_ops # <<>> =>
        /\ HasRequiredTables(Workbook(imp_file))
        /\ DOMAIN Workbook(imp_file).sheets = Range(required_sheets)

\* the position of a statement in the order of a load
Phase(op) ==
    CASE op.kind = "clear" -> 0
      [] op.kind = "constraint" -> 1
      [] op = Op("node", "Designation") -> 2
      [] op = Op("node", "Department") -> 3
      [] op = Op("node", "Skill") -> 4
      [] op = Op("node", "Project") -> 5
      [] op \in {Op("node", "Employee"), Op("edge", "HAS_DESIGNATION"), Op("edge", "BELONGS_TO")} -> 6
      [] op = Op("edge", "WORKS_ON") -> 7
      [] op = Op("edge", "HAS_SKILL") -> 8
      [] op = Op("edge", "REPORTS_TO") -> 9
      [] OTHER -> 10

\* how many statements of one kind the store ran for this import
CountOps(kind, what) == Len(SelectSeq(imp_ops, LAMBDA o : o = Op(kind, what)))
RowCount(sheet) == Len(Workbook(imp_file).sheets[sheet].rows)
ReferenceTables ==
    {<<"Designation", "DESIGNATIONS">>, <<"Department", "DEPARTMENTS">>,
     <<"Skill", "SKILLS">>, <<"Project", "PROJECTS">>}

\* C14: the statements of an accepted import run in the order clear,
\* constraints, Designations, Departments, Skills, Projects, Employees,
\* Project Assignments, Employee Skills, Reporting Structure, verification;
\* an Employee is written only after every row of the four reference
\* tables, and a WORKS_ON, HAS_SKILL or REPORTS_TO edge only after every
\* row of EMPLOYEES.
C14_LoadOrder ==
    /\ \A i, j \in DOMAIN imp_ops : i < j => Phase(imp_ops[i]) <= Phase(imp_ops[j])
    /\ imp_ops # <<>> => (imp_ops[1] = Op("clear", "all") /\ CountOps("clear", "all") = 1)
    /\ imp_pc \in {"step", "verify"} => (imp_ops # <<>> /\ imp_step \in 1..8)
    /\ CountOps("node", "Employee") > 0 =>
           \A t \in ReferenceTables : CountOps("node", t[1]) = RowCount(t[2])
    /\ (\E type \in {"WORKS_ON", "HAS_SKILL", "REPORTS_TO"} : CountOps("edge", type) > 0) =>
           CountOps("node", "Employee") = RowCount("EMPLOYEES")
    /\ (ImportDone /\ imp_out = Ret(TRUE)) =>
           /\ imp_ops[Len(imp_ops)] = Op("verify", "count")
           /\ CountOps("edge", "WORKS_ON") = RowCount("PROJECT_ASSIGNMENTS")
           /\ CountOps("edge", "HAS_SKILL") = RowCount("EMPLOYEE_SKILLS")
           /\ CountOps("edge", "REPORTS_TO") = RowCount("REPORTING_STRUCTURE")

C14_Witness ==
    /\ ImportDone
    /\ imp_file = "company.xlsx"
    /\ imp_out = Ret(TRUE)
    /\ CountOps("constraint", "Employee") = 1
    /\ CountOps("node", "Employee") = 3
    /\ CountOps("edge", "REPORTS_TO") = 2

\* the cleaned rows the import reads from a sheet of the uploaded file
Frame(sheet) == clean_dataframe(Workbook(imp_file).sheets[sheet]).rows
Cells(sheet, col) == {Get(Frame(sheet)[i], col, "") : i \in DOMAIN Frame(sheet)}
IntCells(sheet, col) == {PyInt(c).value : c \in {x \in Cells(sheet, col) : ~PyInt(x).raised}}

\* the key values the source tables hold for a label
ExpectedKeys(label) ==
    CASE label = "Designation" -> Cells("DESIGNATIONS", "designation_id")
      [] label = "Department" -> Cells("DEPARTMENTS", "department_id")
      [] label = "Skill" -> Cells("SKILLS", "skill_id")
      [] label = "Project" -> Cells("PROJECTS", "project_id")
      [] OTHER -> IntCells("EMPLOYEES", "emp_id")

\* the pairs of keys a source table links, both ends being in the source
\* tables
LinkedPairs(sheet, src_col, dst_col, dst_label, int_dst) ==
    {p \in {<<PyInt(Get(Frame(sheet)[i], src_col, "0")).value,
              IF int_dst THEN PyInt(Get(Frame(sheet)[i], dst_col, "0")).value
                         ELSE Get(Frame(sheet)[i], dst_col, "")>> :
                i \in {n \in DOMAIN Frame(sheet) :
                          /\ ~PyInt(Get(Frame(sheet)[n], src_col, "0")).raised
                          /\ int_dst => ~PyInt(Get(Frame(sheet)[n], dst_col, "0")).raised}} :
        p[1] \in ExpectedKeys("Employee") /\ p[2] \in ExpectedKeys(dst_label)}

ExpectedRels(type) ==
    CASE type = "HAS_DESIGNATION" -> LinkedPairs("EMPLOYEES", "emp_id", "designation_id", "Designation", FALSE)
      [] type = "BELONGS_TO" -> LinkedPairs("EMPLOYEES", "emp_id", "department_id", "Department", FALSE)
      [] type = "WORKS_ON" -> LinkedPairs("PROJECT_ASSIGNMENTS", "emp_id", "project_id", "Project", FALSE)
      [] type = "HAS_SKILL" -> LinkedPairs("EMPLOYEE_SKILLS", "emp_id", "skill_id", "Skill", FALSE)
      [] OTHER -> LinkedPairs("REPORTING_STRUCTURE", "emp_id", "manager_id", "Employee", TRUE)

\* what the store holds
NodeKeys(label) == {store.nodes[i].key : i \in {n \in DOMAIN store.nodes : store.nodes[n].label = label}}
StoreRels(type) ==
    {<<store.nodes[store.rels[k].src].key, store.nodes[store.rels[k].dst].key>> :
        k \in {n \in DOMAIN store.rels : store.rels[n].type = type}}

StepLabels == <<"Designation", "Department", "Skill", "Project", "Employee">>
StepTypes(j) ==
    CASE j = 5 -> {"HAS_DESIGNATION", "BELONGS_TO"}
      [] j = 6 -> {"WORKS_ON"}
      [] j = 7 -> {"HAS_SKILL"}
      [] j = 8 -> {"REPORTS_TO"}
      [] OTHER -> {}

\* every write of step j is in the store / no write of step j is
StepWritten(j) ==
    /\ j <= 5 => NodeKeys(StepLabels[j]) = ExpectedKeys(StepLabels[j])
    /\ \A type \in StepTypes(j) : StoreRels(type) = ExpectedRels(type)
StepUntouched(j) ==
    /\ j <= 5 => NodeKeys(StepLabels[j]) = {}
    /\ \A type \in StepTypes(j) : StoreRels(type) = {}

StepNames ==
    <<"Designations", "Departments", "Skills", "Projects", "Employees",
      "Project Assignments", "Employee Skills", "Reporting Structure">>

\* C15: when import step k raises, the import reports the name of step k,
\* runs no statement of a later step and no verification query, returns
\* False, and the store holds every write of the clear and of the steps
\* before k.
C15_StepFailure ==
    (ImportDone /\ imp_fault.at = "step") =>
        LET k == imp_fault.step IN
        /\ imp_out = Ret(FALSE)
        /\ StartsWith(imp_notices[Len(imp_notices)], <<"[x] Error importing ", StepNames[k], ": ">>)
        /\ \A i \in DOMAIN imp_ops : Phase(imp_ops[i]) <= k + 1
        /\ CountOps("verify", "count") = 0
        /\ CountOps("clear", "all") = 1
        /\ \A j \in 1..(k - 1) : StepWritten(j)
        /\ \A j \in (k + 1)..8 : StepUntouched(j)

C15_Witness ==
    /\ ImportDone
    /\ imp_fault = Fault("step", 6, "driver")
    /\ imp_file = "company.xlsx"
    /\ NodeKeys("Employee") = {"1", "2"}
    /\ StoreRels("HAS_DESIGNATION") = {<<"1", "D1">>, <<"1", "D2">>}
    /\ StoreRels("WORKS_ON") = {<<"1", "P1">>}

\* validation, the clear, each of the eight steps and the verification
\* query succeeded in this import
AllStepsSucceeded ==
    /\ HasRequiredTables(Workbook(imp_file))
    /\ imp_fault = NoFault
    /\ CountOps("clear", "all") = 1
    /\ \A t \in ReferenceTables : CountOps("node", t[1]) = RowCount(t[2])
    /\ CountOps("node", "Employee") = RowCount("EMPLOYEES")
    /\ CountOps("edge", "WORKS_ON") = RowCount("PROJECT_ASSIGNMENTS")
    /\ CountOps("edge", "HAS_SKILL") = RowCount("EMPLOYEE_SKILLS")
    /\ CountOps("edge", "REPORTS_TO") = RowCount("REPORTING_STRUCTURE")
    /\ \A j \in 1..8 : StepWritten(j)
    /\ CountOps("verify", "count") = 1

\* C16 (as amended): import_excel_to_neo4j never raises, and returns True
\* exactly when validation, the clear, each of the eight import steps and
\* the verification query succeeded; a constraint statement that raises
\* is reported as a warning and does not make the import return False.
C16_TrueOnlyIfAllSucceeded ==
    ImportDone =>
        /\ ~imp_out.raised
        /\ imp_out.value \in BOOLEAN
        /\ imp_out.value = AllStepsSucceeded
        /\ ~imp_out.value =>
               \/ ~HasRequiredTables(Workbook(imp_file))
               \/ imp_fault.at \in {"driver", "clear", "step", "verify"}

C16_Witness ==
    /\ ImportDone
    /\ imp_out = Ret(TRUE)
    /\ imp_file = "company.xlsx"
    /\ CountOps("constraint", "Skill") = 0
    /\ "Skill" \notin store.constraints

\* C16 (as stated): ... returns True only when every step succeeded,
\* the re-establishment of the five uniqueness constraints included.
C16_TrueOnlyIfConstraints ==
    ImportDone =>
        /\ ~imp_out.raised
        /\ imp_out.value =>
               /\ AllStepsSucceeded
               /\ \A l \in Labels : CountOps("constraint", l) = 1

\* the name the source tables give a key: the one of its last row
NameColumn(label) ==
    CASE label = "Designation" -> <<"DESIGNATIONS", "designation_id", "designation_name">>
      [] label = "Department" -> <<"DEPARTMENTS", "department_id", "department_name">>
      [] label = "Skill" -> <<"SKILLS", "skill_id", "skill_name">>
      [] label = "Project" -> <<"PROJECTS", "project_id", "project_name">>
      [] OTHER -> <<"EMPLOYEES", "emp_id", "name">>
ExpectedName(label, key) ==
    LET t == NameColumn(label)
        rows == Frame(t[1])
        last == CHOOSE i \in DOMAIN rows :
                    /\ Get(rows[i], t[2], "") = key
                    /\ \A j \in DOMAIN rows : Get(rows[j], t[2], "") = key => j <= i
    IN  Get(rows[last], t[3], "")

\* the nodes a successful load of the uploaded file leaves, whatever the
\* store held before
ExpectedNodes ==
    UNION {{[label |-> l, key |-> k, name |-> ExpectedName(l, k)] : k \in ExpectedKeys(l)} : l \in Labels}
RelTypes == {"HAS_DESIGNATION", "BELONGS_TO", "WORKS_ON", "HAS_SKILL", "REPORTS_TO"}
ExpectedCounts == [l \in Labels |-> Cardinality(ExpectedKeys(l))]

\* C17: after a successful load the nodes and relationships of the store
\* are those the source file determines, whatever the store held before;
\* in particular a second successful load of the same file right after the
\* first leaves the same per-label node counts.
C17_FullReplace ==
    (ImportDone /\ imp_out = Ret(TRUE)) =>
        /\ Range(store.nodes) = ExpectedNodes
        /\ Counts(store) = ExpectedCounts
        /\ \A type \in RelTypes : StoreRels(type) = ExpectedRels(type)
        /\ Len(store.rels) = Cardinality(UNION {{<<type, p>> : p \in ExpectedRels(type)} : type \in RelTypes})
        /\ prev_load.file = imp_file => Counts(store) = prev_load.counts

C17_Witness ==
    /\ ImportDone
    /\ imp_out = Ret(TRUE)
    /\ imp_file = "company.xlsx"
    /\ prev_load.file = "company.xlsx"
    /\ Counts(store) = prev_load.counts
    /\ Counts(store)["Employee"] = 2

\* C18: in every state during and after a load, the store holds at most
\* one node per label and key value, also when the source table has several
\* rows with the same key, and at most one relationship of a type between
\* an ordered pair of nodes.
C18_UniqueKeys ==
    /\ \A i, j \in DOMAIN store.nodes :
           (store.nodes[i].label = store.nodes[j].label /\ store.nodes[i].key = store.nodes[j].key) => i = j
    /\ \A a, b \in DOMAIN store.rels : store.rels[a] = store.rels[b] => a = b
    /\ \A a \in DOMAIN store.rels : {store.rels[a].src, store.rels[a].dst} \subseteq DOMAIN store.nodes

C18_Witness ==
    /\ imp_pc = "step"
    /\ imp_step = 7
    /\ imp_file = "company.xlsx"
    /\ CountOps("node", "Employee") = 3
    /\ Counts(store)["Employee"] = 2
    /\ CountOps("node", "Designation") = 3
    /\ Counts(store)["Designation"] = 2
    /\ CountOps("edge", "WORKS_ON") = 4
    /\ Cardinality({k \in DOMAIN store.rels : store.rels[k].type = "WORKS_ON"}) = 1

\* the distinct emp_id values of the EMPLOYEES table
DistinctEmpIds == Cells("EMPLOYEES", "emp_id")

\* C19 (as amended): after a successful import the number of Employee
\* nodes is the number of distinct emp_id values of the EMPLOYEES table,
\* which is its number of rows exactly when no emp_id occurs twice.
C19_EmployeeCount ==
    (ImportDone /\ imp_out = Ret(TRUE)) =>
        /\ Counts(store)["Employee"] = Cardinality(DistinctEmpIds)
        /\ Counts(store)["Employee"] <= RowCount("EMPLOYEES")
        /\ (Counts(store)["Employee"] = RowCount("EMPLOYEES"))
               = (\A i, j \in DOMAIN Frame("EMPLOYEES") :
                      Frame("EMPLOYEES")[i]["emp_id"] = Frame("EMPLOYEES")[j]["emp_id"] => i = j)

C19_Witness ==
    /\ ImportDone
    /\ imp_out = Ret(TRUE)
    /\ imp_file = "company.xlsx"
    /\ RowCount("EMPLOYEES") = 3
    /\ Counts(store)["Employee"] = 2

\* C19 (as stated): after a successful import the number of Employee nodes
\* equals the number of rows of the EMPLOYEES table.
C19_EmployeeCountIsRowCount ==
    (ImportDone /\ imp_out = Ret(TRUE)) => Counts(store)["Employee"] = RowCount("EMPLOYEES")

\* some cell that int() is applied to is not a number
HasBadId ==
    \E t \in {<<"EMPLOYEES", "emp_id">>, <<"PROJECT_ASSIGNMENTS", "emp_id">>, <<"EMPLOYEE_SKILLS", "emp_id">>,
              <<"REPORTING_STRUCTURE", "emp_id">>, <<"REPORTING_STRUCTURE", "manager_id">>} :
        \E c \in Cells(t[1], t[2]) : c \notin NumericCells

\* the Employees step of this import has run to its end
EmployeesImported ==
    /\ imp_ops # <<>>
    /\ \/ imp_pc = "step" /\ imp_step >= 6
       \/ imp_pc = "verify"
       \/ ImportDone /\ imp_out = Ret(TRUE)
       \/ ImportDone /\ imp_fault.at = "step" /\ imp_fault.step >= 6

C21_LazySingleDriver ==
    /\ helper_calls = 0 => (helper_driver = None /\ drivers_created = 0)
    /\ drivers_created <= 1
    /\ helper_calls > 0 =>
           /\ helper_last.before # None =>
                  (~helper_last.created /\ helper_driver = helper_last.before)
           /\ (helper_last.before = None /\ helper_last.env.create = "ok") =>
                  (helper_last.created /\ helper_driver # None)
           /\ helper_last.created => helper_last.before = None
           /\ helper_last.fn = "test_connection" =>
                  /\ ~helper_last.ran
                  /\ ~helper_last.out.raised
                  /\ helper_last.out.value \in BOOLEAN

C21_Witness ==
    /\ helper_calls >= 2
    /\ helper_last.fn = "test_connection"
    /\ helper_last.before # None
    /\ helper_last.env.create = "ok"
    /\ drivers_created = 1
    /\ helper_last.out.value = TRUE

\* C22: over any sequence of questions processed with the same store
\* configuration, at most one driver is created.
C22_SingleDriverPerConfiguration == pipeline_drivers <= 1

AITested == conn_last.tested /\ conn_last.asked

\* C23 (as amended): AIHelper.test_connection, for either provider, never
\* raises and returns a boolean that is true exactly when the backend
\* returned a response that carries a text, the empty text included; it is
\* false for a response without text and for any provider error.
C23_AITestConnection ==
    AITested =>
        /\ ~conn_last.ai.raised
        /\ conn_last.ai.value \in BOOLEAN
        /\ conn_last.ai.value = (conn_last.b.kind = "text")

C23_Witness ==
    /\ AITested
    /\ conn_last.provider = OpenAI
    /\ conn_last.b = BackendText(<<>>)
    /\ conn_last.ai = Ret(TRUE)
    /\ ai_configured

\* C23 as stated: the result is true exactly when the response is non-empty
C23_TrueIffNonEmpty ==
    AITested =>
        /\ ~conn_last.ai.raised
        /\ conn_last.ai.value = (conn_last.b.kind = "text" /\ conn_last.b.text # <<>>)

Suggested == fn_last.fn = "_generate_suggested_questions"
Mentions(word) == \E i \in DOMAIN fn_last.question : Lower(fn_last.question[i]) = word

EMPLOYEE_PAIR == <<"What skills does this employee have?", "Which projects is this employee working on?">>
SKILL_PAIR == <<"Which employees have advanced level in this skill?", "What projects require this skill?">>
PROJECT_PAIR == <<"Which departments are involved in this project?", "What skills are needed for this project?">>
DEPARTMENT_PAIR == <<"Show me the reporting structure in this department", "What projects is this department working on?">>
DEFAULT_PAIR == <<"Can you show me the organizational structure?", "Which employees have the most skills?">>

\* the pair decided by the first of the keywords, in the given order, that
\* the question mentions
PairByPriority(order) ==
    LET hits == SelectSeq(order, LAMBDA w : Mentions(w)) IN
    IF hits = <<>> THEN DEFAULT_PAIR
    ELSE CASE hits[1] = "employee" -> EMPLOYEE_PAIR
           [] hits[1] = "skill" -> SKILL_PAIR
           [] hits[1] = "project" -> PROJECT_PAIR
           [] hits[1] = "department" -> DEPARTMENT_PAIR

\* C24 (as amended): _generate_suggested_questions checks the lower-cased
\* question for the keywords skill, employee, project, department in that
\* priority order, the first keyword that occurs deciding the pair (so a
\* question containing both "employee" and "skill" gets the skill pair), and
\* returns the default pair when none occurs; the result never has more than
\* two suggestions.
C24_SuggestionPriority ==
    Suggested =>
        /\ fn_last.out = PairByPriority(<<"skill", "employee", "project", "department">>)
        /\ Len(fn_last.out) <= 2

C24_Witness ==
    /\ Suggested
    /\ Mentions("employee")
    /\ Mentions("skill")
    /\ Mentions("project")
    /\ fn_last.out = SKILL_PAIR

\* C24 as stated: the priority order is employee, skill, project, department
C24_EmployeeFirst ==
    Suggested =>
        /\ fn_last.out = PairByPriority(<<"employee", "skill", "project", "department">>)
        /\ Len(fn_last.out) <= 2

Parsed == fn_last.fn \in {GEN, NARR}
IsObjectText(J) == JsonValue(J).t = "obj"
FencedLeads == {<<FENCE, JSONTAG, WS>>, <<FENCE, WS>>, <<WS, FENCE, JSONTAG, WS>>}
FencedTrails == {<<WS, FENCE>>, <<WS, FENCE, WS>>}

\* C27: both generation methods strip surrounding whitespace, one leading
\* fence (with or without the json tag) and one trailing fence before
\* parsing: for every JSON object text J the completion lead + J + trail
\* parses to the object that J alone parses to, whether both fences, one of
\* them or none is present, and no completion makes the method raise.
C27_FenceStripping ==
    Parsed =>
        /\ ~fn_last.out.raised
        /\ IsObjectText(fn_last.J) =>
               /\ fn_last.out = fn_last.plain
               /\ fn_last.out.value.success = TRUE
               /\ \A k \in DOMAIN JsonValue(fn_last.J).v :
                      /\ k \in DOMAIN fn_last.out.value
                      /\ k # "success" => fn_last.out.value[k] = JsonValue(fn_last.J).v[k]

C27_Witness ==
    /\ Parsed
    /\ fn_last.fn = NARR
    /\ fn_last.J = "J_answer"
    /\ fn_last.lead = <<FENCE, JSONTAG, WS>>
    /\ fn_last.trail = <<>>
    /\ fn_last.out.value.answer = MODEL_ANSWER

IsPrefix(s, t) == Len(s) <= Len(t) /\ SubSeq(t, 1, Len(s)) = s

\* a step of process_user_query: it begins a question or runs one
QuestionStep == nq' = nq + 1 \/ pc # "idle"

\* C25: chat_history is changed only by process_user_query, which appends,
\* and by the clear operation, which makes it empty; a step of
\* test_connections or of initialize_database, successful or not, leaves
\* it unchanged; and an empty history stays empty until the next question.
C25_HistoryWriters ==
    [][/\ chat_history' # chat_history =>
              \/ QuestionStep /\ IsPrefix(chat_history, chat_history')
              \/ ~QuestionStep /\ chat_history' = <<>> /\ UNCHANGED <<sessionVars, importVars>>
       /\ (sessionVars' # sessionVars \/ importVars' # importVars) => UNCHANGED chat_history
       /\ (chat_history = <<>> /\ chat_history' # <<>>) => nq' = nq + 1]_vars

C25_Witness ==
    /\ Len(chat_history) = 2
    /\ conn_last.tested
    /\ conn_last.turns = 2
    /\ ~neo4j_connected
    /\ conn_last.ai = Ret(TRUE)
    /\ database_initialized
    /\ loads = 2
    /\ imp_out = Ret(FALSE)
    /\ imp_pc = "idle"

Alternates(h) ==
    \A i \in DOMAIN h : h[i].role = (IF i % 2 = 1 THEN "user" ELSE "assistant")

\* the stages of process_user_query, in the order they are passed
Stage(p) ==
    CASE p = "generate" -> 1
      [] p = "execute" -> 2
      [] p = "narrate" -> 3
      [] OTHER -> 4

\* C28: every call of process_user_query comes to its end without raising,
\* having appended the user turn and then exactly one assistant turn and
\* left the earlier turns as they were, on every path; so after every step
\* the history alternates user, assistant, and has even length whenever no
\* question is in progress.
C28_TwoTurnsPerQuestion ==
    [][/\ Alternates(chat_history')
       /\ pc' = "idle" => Len(chat_history') % 2 = 0
       /\ pc' # "idle" => (Len(chat_history') % 2 = 1 /\ pc' \in {"generate", "execute", "narrate"})
       /\ QuestionStep =>
              /\ IsPrefix(chat_history, chat_history')
              /\ Stage(pc') > Stage(pc) \/ pc = "idle"
              /\ (pc = "idle" /\ pc' = "idle") => Len(chat_history') = Len(chat_history) + 2
              /\ (pc = "idle" /\ pc' # "idle") => chat_history' = Append(chat_history, UserTurn(question'))
              /\ (pc # "idle" /\ pc' = "idle") =>
                     /\ Len(chat_history') = Len(chat_history) + 1
                     /\ chat_history'[Len(chat_history')].role = "assistant"
              /\ (pc # "idle" /\ pc' # "idle") => UNCHANGED chat_history]_vars

C28_Witness ==
    /\ pc = "idle"
    /\ Len(chat_history) = 4
    /\ chat_history[2] = AssistantTurn(CONFIG_WARNING)
    /\ chat_history[4] = AssistantTurn(<<"'answer'">>)
    /\ Len(calls) = 6

\* C29: whenever import_excel_to_neo4j has returned, the driver it opened
\* has been closed.
C29_DriverClosedOnReturn == (imp_pc = "idle" /\ loads > 0) => imp_driver # "open"

MidLoad(p) == p \in {"constraints", "step"}
Queried == helper_calls > 0 /\ helper_last.fn = "execute_query" /\ helper_last.arg = Q_LABEL_COUNTS
RowsOf(s) == [i \in DOMAIN LabelCountRecords(s) |-> ConvertRecord(LabelCountRecords(s)[i])]

\* C26: the load takes no lock against queries: while a load is between
\* its clear and its last import step a question of another session can
\* always run its query, and a query that the store answers is neither
\* rejected nor given a snapshot: it returns the rows of the graph as the
\* load has left it so far.
C26_NoLockAgainstQueries ==
    /\ (MidLoad(imp_pc) /\ helper_calls < MaxHelperCalls) =>
           \A run \in RunOutcomes : ENABLED SessionQuery(run)
    /\ (Queried /\ MidLoad(helper_last.during) /\ helper_last.env.run = "ok") =>
           /\ ~helper_last.out.raised
           /\ helper_last.out.value.success
           /\ helper_last.out.value.data = RowsOf(helper_last.seen)
           /\ helper_last.out.value.count = Len(RowsOf(helper_last.seen))

\* a query answered in the middle of the first load with rows that are
\* neither those of the graph before the load nor those of the graph after it
C26_Witness ==
    /\ Queried
    /\ helper_last.during = "step"
    /\ helper_last.load = 1
    /\ loads = 1
    /\ imp_pc = "idle"
    /\ imp_out = Ret(TRUE)
    /\ helper_last.out.value.success
    /\ helper_last.out.value.data # RowsOf(EmptyStore)
    /\ helper_last.out.value.data # RowsOf(store)
    /\ helper_last.seen # store

====
